---------------------------- MODULE Spec2Model ----------------------------
(***************************************************************************)
(* A model of the analysis-and-synthesis pipeline of the repository:       *)
(*   - the plan synthesizer  (services/gemini_service.py),                 *)
(*   - the run orchestrator  (routers/operations.py, simulate_attack),     *)
(*   - the persistent-store adapter (integrations/supabase_service.py),    *)
(*   - the repository fetcher (services/repo_fetcher.py).                  *)
(*                                                                         *)
(* The module holds several specifications over one set of variables:      *)
(*   SpecPlan   one call of generate_gemini_attack_plan, step by step      *)
(*   Spec       concurrent simulate_attack requests against the cache,     *)
(*              the durable run log and the persistent store               *)
(*   SpecStore  threads calling the store operations through _get_conn     *)
(*   SpecFetch  calls of fetch_and_store_repo against the repository       *)
(*              directory                                                  *)
(*   SpecFn     one call of one pure function on every argument            *)
(*   SpecReport simulate_attack executions one at a time, and the read     *)
(*              endpoints over the run log and the persistent store        *)
(* A specification leaves the variables of the others unchanged.           *)
(***************************************************************************)
EXTENDS Integers, Sequences, FiniteSets, TLC

VARIABLES
    \* ---- plan synthesizer (generate_gemini_attack_plan) ----
    gp_pc,          \* "scan" | "loop" | "done"
    gp_profile,     \* repo_profile: [high_risk_files |-> Seq(file_info)]
    settings,       \* get_settings(): [use_gemini, gemini_api_key], process-wide
    gp_samples,     \* code_samples built by step 1
    gp_retry,       \* retry_count
    gp_calls,       \* number of invocations of generate_gemini_response
    gp_last,        \* what the last loop iteration saw: "none"|"error"|"invalid"|"valid"
    gp_result,      \* the returned plan, or NoPlan
    \* ---- run orchestrator (simulate_attack) ----
    now,            \* the latest reading of the clock (datetime.utcnow())
    cache,          \* _attack_plan_cache: repo_id -> entry or NoEntry
    runlog,         \* durable run log: run_id -> record or NoRun
    logWrites,      \* ghost: how often each run_id file was opened for writing
    store,          \* persistent store: [runs, files, insights], each table's rows in order
    req,            \* per client: the state of its simulate_attack request
    received,       \* ghost: simulate_attack requests received so far
    genCalls,       \* ghost: invocations of the generation endpoint
    \* ---- persistent-store adapter (_get_conn and its callers) ----
    conn,           \* the module global _conn: 0 is None, k > 0 the k-th handle
    lockHolder,     \* holder of _lock, NoThread when free
    connects,       \* ghost: successful psycopg2.connect calls
    thr,            \* per thread: the state of its store operation
    dbConfigured,   \* all DB_* settings present
    \* ---- repository fetcher (fetch_and_store_repo) ----
    ft_pc,          \* position inside fetch_and_store_repo
    ft_in,          \* the inputs of the current call
    ft_dir,         \* the repository directory of the repo id
    ft_before,      \* ghost: ft_dir when the current call started
    ft_tmp,         \* the scoped temporary directory
    ft_count,       \* number of calls started
    \* ---- the functions checked on their own ----
    fn_in,          \* the function called and its argument
    fn_out,         \* the value returned, NoOut before the call
    \* ---- the read endpoints (reports, simulation list and detail) ----
    rp,             \* the response to the latest read request
    queries         \* ghost: read requests answered so far

planVars  == <<gp_pc, gp_profile, settings, gp_samples, gp_retry, gp_calls,
               gp_last, gp_result>>
orchVars  == <<now, cache, runlog, logWrites, store, req, received, genCalls>>
storeVars == <<conn, lockHolder, connects, thr, dbConfigured>>
fetchVars == <<ft_pc, ft_in, ft_dir, ft_before, ft_tmp, ft_count>>
fnVars    == <<fn_in, fn_out>>
reportVars == <<rp, queries>>
vars == <<planVars, orchVars, storeVars, fetchVars, fnVars, reportVars>>

---------------------------------------------------------------------------
(* Small helpers.                                                          *)

Range(s) == {s[i] : i \in 1..Len(s)}

Min(a, b) == IF a <= b THEN a ELSE b

\* s[:n]
Take(s, n) == SubSeq(s, 1, Min(n, Len(s)))

\* [x for x in s if P(x)]
RECURSIVE FilterSeq(_, _)
FilterSeq(s, keep) ==
    IF s = <<>> THEN <<>>
    ELSE (IF Head(s) \in keep THEN <<Head(s)>> ELSE <<>>) \o FilterSeq(Tail(s), keep)

\* All sequences over S of length at most n.
SeqsUpTo(S, n) == UNION {[1..k -> S] : k \in 0..n}

---------------------------------------------------------------------------
(* Strings that the code lower-cases and strips.  A string is its          *)
(* lower-case, stripped text (core), whether it holds an upper-case letter *)
(* (upper) and whether whitespace surrounds it (pad).                      *)

Str(core, upper, pad) == [t |-> "str", core |-> core, upper |-> upper, pad |-> pad]

\* str.lower()
StrLower(s) == [s EXCEPT !.upper = FALSE]

\* str.strip()
StrStrip(s) == [s EXCEPT !.pad = FALSE]

\* JSON values other than strings, as far as the code tells them apart.
JAbsent == [t |-> "absent", core |-> "", upper |-> FALSE, pad |-> FALSE]
JNull   == [t |-> "null", core |-> "", upper |-> FALSE, pad |-> FALSE]

\* str(x) of Python: a string is itself, None is "None".
PyStr(v) == IF v.t = "str" THEN v ELSE Str("none", TRUE, FALSE)

\* dict.get(key, default) for a value that may be absent.
GetOr(v, default) == IF v.t = "absent" THEN default ELSE v

ALLOWED_SEVERITIES == {"low", "medium", "high", "critical"}

DEFAULT_OVERALL_SEVERITY == "high"

\* `s in _ALLOWED_SEVERITIES` for a Python string s.
InAllowed(s) == s.core \in ALLOWED_SEVERITIES /\ ~s.upper /\ ~s.pad

---------------------------------------------------------------------------
(* The plan synthesizer: services/gemini_service.py.                       *)

\* File content is a set of code snippets; a pattern set of the scanner
\* matches a content when it holds one of the snippets the set matches.
SqlSnippets    == {"execute('q'+x)", "query(f'"}
CmdSnippets    == {"os.system(", "subprocess.run("}
SecretSnippets == {"password='hunter2hunter2'"}
XssSnippets    == {"innerHTML="}

\* _scan_file_content of gemini_service: the vulnerability classes found,
\* the keys of the findings dict.
GeminiScanFileContent(content) ==
    {c \in {"sql_injection", "command_injection", "hardcoded_secrets", "xss_vulnerable"} :
        \/ c = "sql_injection"     /\ content \cap SqlSnippets # {}
        \/ c = "command_injection" /\ content \cap CmdSnippets # {}
        \/ c = "hardcoded_secrets" /\ content \cap SecretSnippets # {}
        \/ c = "xss_vulnerable"    /\ content \cap XssSnippets # {}}

\* Step 1 of generate_gemini_attack_plan for one file_info: the code
\* sample it adds, if any.  A file without a path, a missing file, a file of
\* 100 KB or more and a read error add nothing.
SampleOf(f) ==
    LET vulnerabilities == GeminiScanFileContent(f.content)
    IN  IF f.path # "" /\ f.readable
           /\ (vulnerabilities # {} \/ f.risk_level = "high")
        THEN <<[file_path |-> f.path, vulnerabilities |-> vulnerabilities]>>
        ELSE <<>>

RECURSIVE SamplesOf(_)
SamplesOf(files) ==
    IF files = <<>> THEN <<>> ELSE SampleOf(Head(files)) \o SamplesOf(Tail(files))

\* for file_info in high_risk_files[:10]
BuildCodeSamples(high_risk_files) == SamplesOf(Take(high_risk_files, 10))

PlanStep(n, vtype, technique, severity, files) ==
    [step_number |-> n, vulnerability_type |-> vtype, technique_id |-> technique,
     severity |-> severity, affected_files |-> files]

\* The steps _build_fallback_plan appends for one sample, numbered from n.
FallbackStepsOf(sample, n) ==
    LET v   == sample.vulnerabilities
        p   == sample.file_path
        s1  == IF "sql_injection" \in v
               THEN <<PlanStep(n, "SQL Injection", "T1190", "critical", <<p>>)>>
               ELSE <<>>
        s2  == IF "command_injection" \in v
               THEN <<PlanStep(n + Len(s1), "Command Injection", "T1059", "critical", <<p>>)>>
               ELSE <<>>
        s3  == IF "hardcoded_secrets" \in v
               THEN <<PlanStep(n + Len(s1) + Len(s2), "Hardcoded Credentials", "T1552",
                               "high", <<p>>)>>
               ELSE <<>>
    IN  s1 \o s2 \o s3

RECURSIVE FallbackSteps(_, _)
FallbackSteps(samples, n) ==
    IF samples = <<>> THEN <<>>
    ELSE LET here == FallbackStepsOf(Head(samples), n)
         IN  here \o FallbackSteps(Tail(samples), n + Len(here))

GenericSteps ==
    << PlanStep(1, "(none)", "T1552", "high", <<".github/workflows/deploy.yml">>),
       PlanStep(2, "(none)", "T1068", "critical", <<"deploy/k8s/rbac.yaml">>) >>

NoPlan == [plan_source |-> "none", overall_severity |-> "none", steps |-> <<>>]

\* A fallback plan that keeps every step found instead of the first three.
BuildFallbackPlanUncapped(code_samples) ==
    LET found == FallbackSteps(Take(code_samples, 3), 1)
        steps == IF found = <<>> THEN GenericSteps ELSE found
    IN  [plan_source |-> "fallback", overall_severity |-> "critical", steps |-> steps]

\* A fallback plan made from every code sample, not the first three.
BuildFallbackPlanAllSamples(code_samples) ==
    LET found == FallbackSteps(code_samples, 1)
        steps == IF found = <<>> THEN GenericSteps ELSE found
    IN  [plan_source |-> IF code_samples # <<>> THEN "fallback_with_scan_results"
                         ELSE "fallback",
         overall_severity |-> IF \E i \in 1..Len(steps) : steps[i].severity = "critical"
                              THEN "critical" ELSE "high",
         steps |-> Take(steps, 3)]

\* _build_fallback_plan(repo_id, code_samples)
BuildFallbackPlan(code_samples) ==
    LET found == FallbackSteps(Take(code_samples, 3), 1)
        steps == IF found = <<>> THEN GenericSteps ELSE found
    IN  [plan_source |-> IF code_samples # <<>> THEN "fallback_with_scan_results"
                         ELSE "fallback",
         overall_severity |-> IF \E i \in 1..Len(steps) : steps[i].severity = "critical"
                              THEN "critical" ELSE "high",
         steps |-> Take(steps, 3)]

\* max_retries of the generation loop.
max_retries == 2

\* simulate_attack passes max_steps = 3.
MaxSteps == 3

\* A file entry of a model step that is not a string.
NonStr == "<non-str>"

\* valid_files of _parse_and_validate_attack_plan: the truthy paths of the
\* profile's high-risk files.
ValidFiles(profile) ==
    {profile.high_risk_files[i].path : i \in 1..Len(profile.high_risk_files)} \ {""}

\* The text of a response decoded: the fence is stripped, json.loads is tried,
\* then the first-brace-to-last-brace block.  Text wrapped in prose decodes
\* only through the brace block, which exists for an object alone.  The result
\* is the decoded document, or jt = "none" when a ValueError is raised.
DecodeResponse(text) ==
    IF text.json.jt = "none" THEN text.json
    ELSE IF text.wrap \in {"plain", "fenced"} THEN text.json
    ELSE IF text.json.jt = "object" THEN text.json
    ELSE [text.json EXCEPT !.jt = "none"]

\* severity of one step: str(step.get("severity", "medium")).lower(), and
\* "medium" when that is not an allowed severity.
StepSeverity(raw) ==
    LET severity == StrLower(PyStr(GetOr(raw, Str("medium", FALSE, FALSE))))
    IN  IF InAllowed(severity) THEN severity.core ELSE "medium"

\* overall_severity: str(plan_data.get("overall_severity", "high")).lower(),
\* and the default when that is not an allowed severity.
OverallSeverity(raw) ==
    LET overall == StrLower(PyStr(GetOr(raw, Str("high", FALSE, FALSE))))
    IN  IF InAllowed(overall) THEN overall.core ELSE DEFAULT_OVERALL_SEVERITY

\* affected_files of one step: strings that are valid files (any string
\* when there is no valid file), the first five; [] when not a list.
StepAffectedFiles(step, valid_files) ==
    IF step.files_is_list
    THEN Take(FilterSeq(step.files,
                        IF valid_files = {} THEN Range(step.files) \ {NonStr}
                        ELSE valid_files), 5)
    ELSE <<>>

\* The loop over plan_data["steps"][:max_steps]: an entry that is not a dict
\* is skipped, and a kept entry is numbered by its index in the array.
RECURSIVE SanitizeSteps(_, _, _)
SanitizeSteps(steps, i, valid_files) ==
    IF steps = <<>> THEN <<>>
    ELSE (IF Head(steps).isdict
          THEN <<PlanStep(i + 1, Head(steps).vtype, "N/A",
                          StepSeverity(Head(steps).severity),
                          StepAffectedFiles(Head(steps), valid_files))>>
          ELSE <<>>)
         \o SanitizeSteps(Tail(steps), i + 1, valid_files)

\* _parse_and_validate_attack_plan: the sanitized plan, or NoPlan when it
\* raises (no JSON, not an object, no steps array, no surviving step).
ParseAndValidateAttackPlan(text, profile, max_steps) ==
    LET plan_data == DecodeResponse(text)
        sanitized_steps ==
            SanitizeSteps(Take(plan_data.steps, max_steps), 0, ValidFiles(profile))
    IN  IF plan_data.jt # "object" \/ ~plan_data.has_steps \/ sanitized_steps = <<>>
        THEN NoPlan
        ELSE [plan_source |-> "gemini",
              overall_severity |-> OverallSeverity(plan_data.overall),
              steps |-> sanitized_steps]

\* A loop iteration that counts error responses alone: a response that does
\* not parse is asked for again without using up the budget.
LoopIterationForgiving(retry_count, resp, profile, code_samples) ==
    LET attack_plan == ParseAndValidateAttackPlan(resp, profile, MaxSteps)
    IN  IF resp.kind = "error"
        THEN IF retry_count + 1 <= max_retries
             THEN [retry |-> retry_count + 1, done |-> FALSE, result |-> NoPlan,
                   last |-> "error"]
             ELSE [retry |-> retry_count + 1, done |-> TRUE,
                   result |-> BuildFallbackPlan(code_samples), last |-> "error"]
        ELSE IF attack_plan # NoPlan
        THEN [retry |-> retry_count, done |-> TRUE, result |-> attack_plan,
              last |-> "valid"]
        ELSE [retry |-> retry_count, done |-> FALSE, result |-> NoPlan,
              last |-> "invalid"]

\* One iteration of `while retry_count <= max_retries` for the endpoint's
\* response resp: the retry counter after it, whether the function returned,
\* and what it returned.
LoopIteration(retry_count, resp, profile, code_samples) ==
    LET attack_plan == ParseAndValidateAttackPlan(resp, profile, MaxSteps)
    IN  IF resp.kind = "error"
        THEN IF retry_count + 1 <= max_retries
             THEN [retry |-> retry_count + 1, done |-> FALSE, result |-> NoPlan,
                   last |-> "error"]
             ELSE [retry |-> retry_count + 1, done |-> TRUE,
                   result |-> BuildFallbackPlan(code_samples), last |-> "error"]
        ELSE IF attack_plan # NoPlan
        THEN [retry |-> retry_count, done |-> TRUE, result |-> attack_plan,
              last |-> "valid"]
        \* except Exception: retry_count += 1
        ELSE IF retry_count + 1 > max_retries
        THEN [retry |-> retry_count + 1, done |-> TRUE,
              result |-> BuildFallbackPlan(code_samples), last |-> "invalid"]
        ELSE [retry |-> retry_count + 1, done |-> FALSE, result |-> NoPlan,
              last |-> "invalid"]

\* An availability check that looks at the use_gemini switch alone.
GeminiAvailableWithoutKey(st) == st.use_gemini

\* Whether the generation endpoint is used at all (step 2).
GeminiAvailable(st) == st.use_gemini /\ st.gemini_api_key

---------------------------------------------------------------------------
(* Inputs of the synthesizer.                                              *)

\* Longest high_risk_files list of a profile.
MaxFiles == 2

\* Longest steps array of a model response.
MaxRespSteps == 4

\* A manifest entry (path, size, risk_level, vulnerabilities) together with
\* what the synthesizer finds on disk for it: whether the file exists, is
\* under 100 KB and can be read (readable), and its content.
FileInfo(path, size, risk_level, vulns, readable, content) ==
    [path |-> path, size |-> size, risk_level |-> risk_level,
     vulnerabilities |-> vulns, readable |-> readable, content |-> content]

FileInfos ==
    { FileInfo("app.py", 20, "critical", {}, TRUE,
               {"query(f'", "password='hunter2hunter2'"}),
      FileInfo("db.py", 30, "critical", {}, TRUE,
               {"execute('q'+x)", "subprocess.run(", "password='hunter2hunter2'"}),
      FileInfo("config.yaml", 5, "high", {}, TRUE, {"innerHTML="}),
      FileInfo("big.py", 900, "critical", {}, FALSE, {"os.system("}) }

Profiles == {[high_risk_files |-> fs] : fs \in SeqsUpTo(FileInfos, MaxFiles)}

SettingsSet == [use_gemini : BOOLEAN, gemini_api_key : BOOLEAN]

RespStep(isdict, severity, files_is_list, files, vtype) ==
    [isdict |-> isdict, severity |-> severity, files_is_list |-> files_is_list,
     files |-> files, vtype |-> vtype]

\* Entries of a model's steps array.
RespSteps ==
    { RespStep(FALSE, JAbsent, FALSE, <<>>, "Unknown"),
      RespStep(TRUE, Str("high", FALSE, FALSE), TRUE, <<"app.py">>, "Command Injection"),
      RespStep(TRUE, Str("critical", TRUE, TRUE), TRUE,
               <<"ghost.py", NonStr, "db.py", "a3", "a4", "a5", "a6">>, "SQL Injection"),
      RespStep(TRUE, JAbsent, FALSE, <<>>, "Unknown") }

JsonDoc(jt, has_steps, steps, overall) ==
    [jt |-> jt, has_steps |-> has_steps, steps |-> steps, overall |-> overall]

JsonDocs ==
    { JsonDoc("none", FALSE, <<>>, JAbsent),       \* not JSON at all
      JsonDoc("other", FALSE, <<>>, JAbsent),      \* a JSON array or number
      JsonDoc("object", FALSE, <<>>, Str("high", FALSE, FALSE)) } \* no steps array
    \cup { JsonDoc("object", TRUE, st, ov) :
             st \in SeqsUpTo(RespSteps, MaxRespSteps),
             ov \in {JNull, Str("critical", TRUE, FALSE), Str("low", FALSE, TRUE)} }

ErrorResponse ==
    [kind |-> "error", wrap |-> "plain", json |-> JsonDoc("none", FALSE, <<>>, JAbsent)]

\* What generate_gemini_response can return: an error dict (HTTP error,
\* timeout, any exception, no text in the body) or a text.
Responses ==
    {ErrorResponse}
    \cup {[kind |-> "text", wrap |-> w, json |-> j] :
            w \in {"fenced", "prose"}, j \in JsonDocs}

---------------------------------------------------------------------------
(* generate_gemini_attack_plan, one call, step by step.                    *)

PlanOtherInit ==
    /\ gp_pc = "scan"
    /\ gp_profile = [high_risk_files |-> <<>>]
    /\ gp_samples = <<>>
    /\ gp_retry = 0
    /\ gp_calls = 0
    /\ gp_last = "none"
    /\ gp_result = NoPlan

\* Steps 1 to 3: scan the files, return the fallback plan when generation is
\* disabled or unconfigured, else build the prompt and enter the loop.
GpScan ==
    /\ gp_pc = "scan"
    /\ gp_samples' = BuildCodeSamples(gp_profile.high_risk_files)
    /\ IF ~GeminiAvailable(settings)
       THEN /\ gp_result' = BuildFallbackPlan(gp_samples')
            /\ gp_pc' = "done"
       ELSE /\ gp_result' = gp_result
            /\ gp_pc' = "loop"
    /\ UNCHANGED <<gp_profile, settings, gp_retry, gp_calls, gp_last>>
    /\ UNCHANGED <<orchVars, storeVars, fetchVars, fnVars, reportVars>>

\* Step 4: one iteration of the loop, one invocation of the endpoint.
GpCall ==
    /\ gp_pc = "loop"
    /\ gp_retry <= max_retries
    /\ \E resp \in Responses :
         LET it == LoopIteration(gp_retry, resp, gp_profile, gp_samples)
         IN  /\ gp_calls' = gp_calls + 1
             /\ gp_retry' = it.retry
             /\ gp_last' = it.last
             /\ gp_result' = it.result
             /\ gp_pc' = IF it.done THEN "done" ELSE "loop"
    /\ UNCHANGED <<gp_profile, settings, gp_samples>>
    /\ UNCHANGED <<orchVars, storeVars, fetchVars, fnVars, reportVars>>

\* The `return` after the loop (line 739) is never reached: every iteration
\* that leaves retry_count above max_retries returns inside the loop.

---------------------------------------------------------------------------
(* The high-risk selector: services/repo_fetcher.py.                       *)

\* A score that puts the risk level before the findings.
PriorityScoreRiskFirst(file) ==
    IF file.risk_level = "critical" THEN <<0, 0, 0 - file.size>>
    ELSE IF file.vulnerabilities # {}
    THEN <<1, Cardinality(file.vulnerabilities), 0 - file.size>>
    ELSE IF file.risk_level = "high" THEN <<2, 0, 0 - file.size>>
    ELSE IF file.risk_level = "medium" THEN <<3, 0, 0 - file.size>>
    ELSE <<4, 0, 0 - file.size>>

\* priority_score(file)
PriorityScore(file) ==
    IF file.vulnerabilities # {}
    THEN <<0, Cardinality(file.vulnerabilities), 0 - file.size>>
    ELSE IF file.risk_level = "critical" THEN <<1, 0, 0 - file.size>>
    ELSE IF file.risk_level = "high" THEN <<2, 0, 0 - file.size>>
    ELSE IF file.risk_level = "medium" THEN <<3, 0, 0 - file.size>>
    ELSE <<4, 0, 0 - file.size>>

\* Python's ordering of two score tuples: a < b.
TupleLess(a, b) ==
    \/ a[1] < b[1]
    \/ a[1] = b[1] /\ a[2] < b[2]
    \/ a[1] = b[1] /\ a[2] = b[2] /\ a[3] < b[3]

\* f inserted into the sorted list behind every entry that is not greater:
\* sorted() is stable.
RECURSIVE InsertByScore(_, _)
InsertByScore(f, sorted) ==
    IF sorted = <<>> THEN <<f>>
    ELSE IF TupleLess(PriorityScore(f), PriorityScore(Head(sorted)))
         THEN <<f>> \o sorted
         ELSE <<Head(sorted)>> \o InsertByScore(f, Tail(sorted))

RECURSIVE SortedByScore(_)
SortedByScore(files) ==
    IF files = <<>> THEN <<>>
    ELSE InsertByScore(files[Len(files)], SortedByScore(SubSeq(files, 1, Len(files) - 1)))

\* select_high_risk_files(manifest, limit)
SelectHighRiskFiles(manifest, limit) == Take(SortedByScore(manifest.files), limit)

---------------------------------------------------------------------------
(* The run orchestrator: routers/operations.py, simulate_attack.           *)

\* The cache lifetime in seconds.
CacheTtl == 600

\* The clock is read at 0 and 2 seconds and one second before, at and after
\* each multiple of the cache lifetime, up to MaxEpoch lifetimes.
MaxEpoch == 1

Times == {0, 2} \cup {k * CacheTtl + d : k \in 1..MaxEpoch, d \in {0 - 1, 0, 1}}

\* Requests received in one behaviour.
MaxRequests == 2

\* Requests in flight at once: a request is handled in the first free slot.
NumClients == 2

Clients == 1..NumClients

FirstFree(c) == req[c].pc = "idle" /\ \A d \in Clients : d < c => req[d].pc # "idle"

\* The repo ids that pass _validate_repo_id and have requests in flight.
Repos == {"repoA"}

\* The repo ids a client may send.
RepoIds == Repos \cup {"../repoA", "repo A"}

\* The classes of the characters of a repo id.
CharsOf(repo_id) ==
    CASE repo_id = "repoA" -> {"alnum"}
      [] repo_id = "../repoA" -> {"dot", "slash", "alnum"}
      [] repo_id = "repo A" -> {"alnum", "space"}
      [] OTHER -> {}

\* REPO_ID_PATTERN.fullmatch(repo_id): one or more characters, each a
\* letter, a digit, an underscore or a hyphen.
ValidateRepoId(repo_id) ==
    CharsOf(repo_id) # {} /\ CharsOf(repo_id) \subseteq {"alnum", "underscore", "hyphen"}

\* load_repo_manifest: the manifest of the repository directory, when the
\* directory holds one.
ManifestOf(repo) ==
    IF ft_dir.exists /\ ft_dir.manifest
    THEN [present |-> TRUE,
          files |-> << FileInfo("config.yaml", 5, "high", {}, TRUE, {"print(1)"}),
                       FileInfo("util.py", 10, "low", {}, TRUE, {"print(1)"}),
                       FileInfo("app.py", 20, "critical", {}, TRUE, {"os.system("}) >>]
    ELSE [present |-> FALSE, files |-> <<>>]

\* A repository directory left by an earlier upload.
IngestedDir == [exists |-> TRUE, version |-> 1, manifest |-> TRUE]

\* An AttackStep of the schema: the step's vulnerability_type is not kept.
AttackStep(step) ==
    [step_number |-> step.step_number, technique_id |-> step.technique_id,
     severity |-> step.severity, affected_files |-> step.affected_files]

\* The AttackPlan simulate_attack builds from the synthesizer's plan dict.
AttackPlanOf(plan_dict) ==
    [overall_severity |-> plan_dict.overall_severity,
     steps |-> [i \in 1..Len(plan_dict.steps) |-> AttackStep(plan_dict.steps[i])]]

\* _build_default_plan: the legacy static plan.
BuildDefaultPlan ==
    [overall_severity |-> "critical",
     steps |-> << AttackStep(PlanStep(1, "", "T1552", "high",
                                      <<".github/workflows/deploy.yml">>)),
                  AttackStep(PlanStep(2, "", "T1068", "critical",
                                      <<"deploy/k8s/rbac.yaml">>)),
                  AttackStep(PlanStep(3, "", "T1547", "medium",
                                      <<"docker/entrypoint.sh">>)) >>]

\* A legacy planner that asks the generation endpoint whenever it is
\* configured, manifest or not.
GenerateAttackPlanAlwaysAsking(repo) ==
    IF settings.use_gemini /\ settings.gemini_api_key
    THEN [plan |-> BuildDefaultPlan, calls |-> 1]
    ELSE [plan |-> BuildDefaultPlan, calls |-> 0]

\* generate_attack_plan, the legacy planner: the manifest is loaded again and
\* the generation endpoint is asked only when it is configured, the manifest
\* is there and it lists a high-risk file.  The endpoint's answer is taken to
\* be unusable: GeminiPlanError is caught and the default plan returned.
GenerateAttackPlan(repo) ==
    IF /\ settings.use_gemini /\ settings.gemini_api_key
       /\ ManifestOf(repo).present
       /\ SelectHighRiskFiles(ManifestOf(repo), 10) # <<>>
    THEN [plan |-> BuildDefaultPlan, calls |-> 1]
    ELSE [plan |-> BuildDefaultPlan, calls |-> 0]

\* generate_gemini_attack_plan as a function of the endpoint's answers to its
\* successive invocations: the plan returned and the invocations made.
RECURSIVE RunLoop(_, _, _, _, _)
RunLoop(retry_count, calls, resps, profile, code_samples) ==
    LET it == LoopIteration(retry_count, Head(resps), profile, code_samples)
    IN  IF it.done THEN [result |-> it.result, calls |-> calls + 1]
        ELSE RunLoop(it.retry, calls + 1, Tail(resps), profile, code_samples)

GenerateGeminiAttackPlan(profile, st, resps) ==
    LET code_samples == BuildCodeSamples(profile.high_risk_files)
    IN  IF ~GeminiAvailable(st)
        THEN [result |-> BuildFallbackPlan(code_samples), calls |-> 0]
        ELSE RunLoop(0, 0, resps, profile, code_samples)

\* run_sandbox_simulation: one log entry per step.
RunSandboxSimulation(plan) ==
    [i \in 1..Len(plan.steps) |->
        [step |-> plan.steps[i].step_number, status |-> "success"]]

\* run_id = f"{repo_id}_{timestamp:%Y%m%dT%H%M%S%f}"
RunId(repo, timestamp) == <<repo, timestamp>>

RunIds == Repos \X Times

NoRun == [repo_id |-> "", run_id |-> <<>>, timestamp |-> 0 - 1,
          plan |-> [overall_severity |-> "none", steps |-> <<>>], sandbox |-> <<>>]

SimulationRun(repo, timestamp, plan) ==
    [repo_id |-> repo, run_id |-> RunId(repo, timestamp), timestamp |-> timestamp,
     plan |-> plan, sandbox |-> RunSandboxSimulation(plan)]

NoGradient == [status |-> "none"]

NoResponse == [run |-> NoRun, gradient |-> NoGradient]

\* A cache entry; recv is a ghost: when the request that wrote it was received.
NoEntry == [present |-> FALSE, timestamp |-> 0 - 1, simulation_data |-> NoResponse,
            recv |-> 0 - 1]

\* A client with no request in flight.  task is a ghost: what the auxiliary
\* task did for the request.
IdleReq == [pc |-> "idle", repo |-> "", force |-> FALSE, recv |-> 0 - 1,
            run |-> NoRun, resp |-> NoResponse, cached |-> FALSE, task |-> "none"]

\* An entry that never expires.
CacheFreshForever(entry, clock) == TRUE

\* cache_age < 600 for a present entry.
CacheFresh(entry, clock) == clock - entry.timestamp < CacheTtl

\* The cache check at the head of simulate_attack: the request is answered
\* from the cache.
ServedFromCache(repo, force, clock) ==
    ~force /\ cache[repo].present /\ CacheFresh(cache[repo], clock)

\* A persistence hook that opens the run's file and writes nothing.
PersistSimulationEmpty(run) ==
    /\ runlog' = runlog
    /\ logWrites' = [logWrites EXCEPT ![run.run_id] = @ + 1]

\* _persist_simulation: the run's file is opened for writing and written.
PersistSimulation(run) ==
    /\ runlog' = [runlog EXCEPT ![run.run_id] = run]
    /\ logWrites' = [logWrites EXCEPT ![run.run_id] = @ + 1]

\* The answers of the generation endpoint the orchestrator is run against:
\* a valid plan at the first invocation, or three error responses.
ValidResponse ==
    [kind |-> "text", wrap |-> "fenced",
     json |-> JsonDoc("object", TRUE,
                      << RespStep(TRUE, Str("high", FALSE, FALSE), TRUE, <<"app.py">>,
                                  "Command Injection"),
                         RespStep(TRUE, Str("high", FALSE, FALSE), TRUE,
                                  <<"config.yaml", "app.py">>, "Secrets") >>,
                      Str("high", FALSE, FALSE))]

OrchResponseSeqs ==
    { <<ValidResponse, ValidResponse, ValidResponse>>,
      <<ErrorResponse, ErrorResponse, ErrorResponse>> }

\* Whether a store write gets through: with the DB_* settings unset _get_conn
\* raises in every call; with them set the insert is taken to succeed.
StoreWriteOks == {dbConfigured}

\* A store write whose exception is not caught.
StoreWriteRaises(ok) == IF ok THEN "true" ELSE "raised"

\* A store write (store_simulation_run, store_affected_files): the insert
\* runs inside try/except, so a failing connection or statement gives False.
StoreWriteOutcome(ok) == IF ok THEN "true" ELSE "false"

\* The gradient field of the response for what run_gradient_task did:
\* returned a result, returned None, or raised.
GradientResult(task) ==
    IF task = "raise" THEN [status |-> "error", mock |-> TRUE]
    ELSE IF task = "none" THEN [status |-> "unavailable", mock |-> TRUE]
    ELSE [status |-> "completed", mock |-> TRUE]

\* affected_file_rows: one row per step and affected file, in order.
RECURSIVE AffectedFileRows(_)
AffectedFileRows(steps) ==
    IF steps = <<>> THEN <<>>
    ELSE [i \in 1..Len(Head(steps).affected_files) |->
            [file_path |-> Head(steps).affected_files[i],
             severity |-> Head(steps).severity]]
         \o AffectedFileRows(Tail(steps))

\* The rows store_affected_files inserts: entries without a file path are
\* skipped.
RECURSIVE StoredFileRows(_, _)
StoredFileRows(run, rows) ==
    IF rows = <<>> THEN <<>>
    ELSE (IF Head(rows).file_path # ""
          THEN <<[repo_id |-> run.repo_id, run_id |-> run.run_id,
                  file_path |-> Head(rows).file_path, severity |-> Head(rows).severity]>>
          ELSE <<>>)
         \o StoredFileRows(run, Tail(rows))

\* datetime.utcnow(): a reading t of the clock, never before the latest one.
ClockRead(t) == t >= now /\ now' = t

\* The state of a request whose plan is made: the run record is built with
\* the clock's reading and persisted, and the store writes follow.
Persisted(c, repo, force, recv, timestamp, plan) ==
    LET run == SimulationRun(repo, timestamp, plan)
    IN  /\ PersistSimulation(run)
        /\ req' = [req EXCEPT ![c] = [pc |-> "store_run", repo |-> repo,
                                      force |-> force, recv |-> recv, run |-> run,
                                      resp |-> NoResponse, cached |-> FALSE,
                                      task |-> "none"]]

\* A cache hit that also refreshes the entry's timestamp (a sliding expiry).
CacheHitTouching(c) ==
    /\ FirstFree(c)
    /\ received < MaxRequests
    /\ \E repo \in Repos, force \in BOOLEAN, t \in Times :
         /\ ClockRead(t)
         /\ ServedFromCache(repo, force, t)
         /\ req' = [req EXCEPT ![c] = [IdleReq EXCEPT !.pc = "done", !.repo = repo,
                                         !.force = force, !.recv = t,
                                         !.resp = cache[repo].simulation_data,
                                         !.cached = TRUE]]
         /\ cache' = [cache EXCEPT ![repo].timestamp = t]
    /\ received' = received + 1
    /\ UNCHANGED <<runlog, logWrites, store, genCalls>>
    /\ UNCHANGED <<planVars, storeVars, fetchVars, fnVars, reportVars>>

\* simulate_attack, _validate_repo_id raises: the request is answered with
\* status 400 before the cache is looked at.
Reject(c) ==
    /\ FirstFree(c)
    /\ received < MaxRequests
    /\ \E repo \in RepoIds :
         /\ ~ValidateRepoId(repo)
         /\ req' = [req EXCEPT ![c] = [IdleReq EXCEPT !.pc = "rejected", !.repo = repo]]
    /\ received' = received + 1
    /\ UNCHANGED <<now, cache, runlog, logWrites, store, genCalls>>
    /\ UNCHANGED <<planVars, storeVars, fetchVars, fnVars, reportVars>>

\* simulate_attack, cache hit: the stored payload is returned.
CacheHit(c) ==
    /\ FirstFree(c)
    /\ received < MaxRequests
    /\ \E repo \in Repos, force \in BOOLEAN, t \in Times :
         /\ ClockRead(t)
         /\ ServedFromCache(repo, force, t)
         /\ req' = [req EXCEPT ![c] = [IdleReq EXCEPT !.pc = "done", !.repo = repo,
                                         !.force = force, !.recv = t,
                                         !.resp = cache[repo].simulation_data,
                                         !.cached = TRUE]]
    /\ received' = received + 1
    /\ UNCHANGED <<cache, runlog, logWrites, store, genCalls>>
    /\ UNCHANGED <<planVars, storeVars, fetchVars, fnVars, reportVars>>

\* simulate_attack, cache miss or forced, manifest present: the high-risk
\* files are selected and the synthesizer is awaited.
StartPipeline(c) ==
    /\ FirstFree(c)
    /\ received < MaxRequests
    /\ \E repo \in Repos, force \in BOOLEAN, t \in Times :
         /\ ClockRead(t)
         /\ ~ServedFromCache(repo, force, t)
         /\ ManifestOf(repo).present
         /\ req' = [req EXCEPT ![c] = [IdleReq EXCEPT !.pc = "synth", !.repo = repo,
                                         !.force = force, !.recv = t]]
    /\ received' = received + 1
    /\ UNCHANGED <<cache, runlog, logWrites, store, genCalls>>
    /\ UNCHANGED <<planVars, storeVars, fetchVars, fnVars, reportVars>>

\* simulate_attack, cache miss or forced, no manifest: load_repo_manifest
\* raises ManifestNotFoundError, the legacy planner is called without
\* awaiting, and the run is persisted in the same step.
StartLegacy(c) ==
    /\ FirstFree(c)
    /\ received < MaxRequests
    /\ \E repo \in Repos, force \in BOOLEAN, t \in Times :
         /\ ClockRead(t)
         /\ ~ServedFromCache(repo, force, t)
         /\ ~ManifestOf(repo).present
         /\ Persisted(c, repo, force, t, t, GenerateAttackPlan(repo).plan)
         /\ genCalls' = genCalls + GenerateAttackPlan(repo).calls
    /\ received' = received + 1
    /\ UNCHANGED <<cache, store>>
    /\ UNCHANGED <<planVars, storeVars, fetchVars, fnVars, reportVars>>

\* The synthesizer returns: the plan is converted, the sandbox log built, the
\* clock read for the run id and the run persisted.
Synthesize(c) ==
    /\ req[c].pc = "synth"
    /\ \E resps \in OrchResponseSeqs, t \in Times :
         LET manifest == ManifestOf(req[c].repo)
             profile  == [high_risk_files |-> SelectHighRiskFiles(manifest, 15)]
             g        == GenerateGeminiAttackPlan(profile, settings, resps)
         IN  /\ ClockRead(t)
             /\ Persisted(c, req[c].repo, req[c].force, req[c].recv, t,
                          AttackPlanOf(g.result))
             /\ genCalls' = genCalls + g.calls
    /\ UNCHANGED <<cache, store, received>>
    /\ UNCHANGED <<planVars, storeVars, fetchVars, fnVars, reportVars>>

\* await store_simulation_run(...): its result is not looked at.
StoreRun(c) ==
    /\ req[c].pc = "store_run"
    /\ \E ok \in StoreWriteOks :
         /\ LET out == StoreWriteOutcome(ok)
                run == req[c].run
            IN  /\ store' = IF ok
                            THEN [store EXCEPT !.runs = Append(@,
                                    [repo_id |-> run.repo_id, run_id |-> run.run_id,
                                     overall_severity |-> run.plan.overall_severity,
                                     timestamp |-> run.timestamp])]
                            ELSE store
                /\ req' = [req EXCEPT ![c].pc =
                             IF out = "raised" THEN "failed"
                             ELSE IF AffectedFileRows(run.plan.steps) # <<>>
                                  THEN "store_files" ELSE "gradient"]
    /\ UNCHANGED <<now, cache, runlog, logWrites, received, genCalls>>
    /\ UNCHANGED <<planVars, storeVars, fetchVars, fnVars, reportVars>>

\* await store_affected_files(...), when there are rows.
StoreFiles(c) ==
    /\ req[c].pc = "store_files"
    /\ \E ok \in StoreWriteOks :
         /\ LET out == StoreWriteOutcome(ok)
                run == req[c].run
            IN  /\ store' = IF ok
                            THEN [store EXCEPT !.files = @ \o
                                    StoredFileRows(run, AffectedFileRows(run.plan.steps))]
                            ELSE store
                /\ req' = [req EXCEPT ![c].pc =
                             IF out = "raised" THEN "failed" ELSE "gradient"]
    /\ UNCHANGED <<now, cache, runlog, logWrites, received, genCalls>>
    /\ UNCHANGED <<planVars, storeVars, fetchVars, fnVars, reportVars>>

\* A cache write that keeps an entry already present (first writer wins).
CacheWriteIfAbsent(repo, entry) ==
    cache' = IF cache[repo].present THEN cache ELSE [cache EXCEPT ![repo] = entry]

\* The cache write at the end of simulate_attack.
CacheWrite(repo, entry) == cache' = [cache EXCEPT ![repo] = entry]

\* await run_gradient_task(...), then the response is assembled, written
\* into the cache and returned.
Gradient(c) ==
    /\ req[c].pc = "gradient"
    /\ \E task \in {"result", "none", "raise"} :
         LET payload == [run |-> req[c].run, gradient |-> GradientResult(task)]
         IN  /\ CacheWrite(req[c].repo,
                           [present |-> TRUE, timestamp |-> req[c].run.timestamp,
                            simulation_data |-> payload, recv |-> req[c].recv])
             /\ req' = [req EXCEPT ![c].pc = "done", ![c].resp = payload,
                                   ![c].task = task]
    /\ UNCHANGED <<now, runlog, logWrites, store, received, genCalls>>
    /\ UNCHANGED <<planVars, storeVars, fetchVars, fnVars, reportVars>>

\* The response has been sent; the client may send another request.
Return(c) ==
    /\ req[c].pc \in {"done", "failed", "rejected"}
    /\ req' = [req EXCEPT ![c] = IdleReq]
    /\ UNCHANGED <<now, cache, runlog, logWrites, store, received, genCalls>>
    /\ UNCHANGED <<planVars, storeVars, fetchVars, fnVars, reportVars>>

OrchInit ==
    /\ now = 0
    /\ cache = [r \in Repos |-> NoEntry]
    /\ runlog = [id \in RunIds |-> NoRun]
    /\ logWrites = [id \in RunIds |-> 0]
    /\ store = [runs |-> <<>>, files |-> <<>>, insights |-> <<>>]
    /\ req = [c \in Clients |-> IdleReq]
    /\ received = 0
    /\ genCalls = 0

---------------------------------------------------------------------------
(* The persistent-store adapter: integrations/supabase_service.py.         *)

Threads == {"t1", "t2"}

NoThread == "none"

WriteOps == {"store_simulation_run", "store_affected_files", "store_ai_insight"}

ReadOps == {"fetch_latest_simulation_report", "fetch_simulation_report",
            "fetch_severity_summary"}

\* A thread outside any store operation.  viaLock and errored are ghosts:
\* whether _get_conn went through the lock, and whether the operation met an
\* error (no configuration, a failed connect, a failed statement).
IdleThread == [pc |-> "idle", op |-> "none", handle |-> 0, viaLock |-> FALSE,
               errored |-> FALSE, result |-> "none", answer |-> "none"]

\* `if _conn is not None: return _conn` before the lock.
FirstCheckHit(c) == c # 0

\* No second check under the lock.
SecondCheckMissing(c) == FALSE

\* `if _conn is not None: return _conn` under the lock.
SecondCheckHit(c) == c # 0

\* What an operation gives its caller when _get_conn or the statement
\* raised: the writes catch every exception and return False, the reads hold
\* no handler and the exception leaves them.
OnStoreError(op) == IF op \in WriteOps THEN "false" ELSE "raised"

\* What the endpoint does with the result of a read: a payload is served
\* from the store, an absent value sends the endpoint to the durable run log,
\* and an exception ends the request with a server error.
EndpointAnswer(op, result) ==
    IF op \in WriteOps THEN "none"
    ELSE IF result = "payload" THEN "store"
    ELSE IF result = "absent" THEN "log"
    ELSE "500"

\* The operation ends with an error.
StoreOpFails(t) ==
    LET result == OnStoreError(thr[t].op)
    IN  [thr[t] EXCEPT !.pc = "done", !.errored = TRUE, !.result = result,
                       !.answer = EndpointAnswer(thr[t].op, result)]

\* A caller enters a store operation, which calls _get_conn().
BeginOp(t) ==
    /\ thr[t].pc = "idle"
    /\ \E op \in WriteOps \cup ReadOps :
         thr' = [thr EXCEPT ![t] = [IdleThread EXCEPT !.pc = "check1", !.op = op]]
    /\ UNCHANGED <<conn, lockHolder, connects, dbConfigured>>
    /\ UNCHANGED <<planVars, orchVars, fetchVars, fnVars, reportVars>>

\* _get_conn, the check before the lock.
GetConnCheck1(t) ==
    /\ thr[t].pc = "check1"
    /\ thr' = [thr EXCEPT ![t] = IF FirstCheckHit(conn)
                                 THEN [@ EXCEPT !.pc = "query", !.handle = conn]
                                 ELSE [@ EXCEPT !.pc = "lock"]]
    /\ UNCHANGED <<conn, lockHolder, connects, dbConfigured>>
    /\ UNCHANGED <<planVars, orchVars, fetchVars, fnVars, reportVars>>

\* with _lock:
GetConnAcquire(t) ==
    /\ thr[t].pc = "lock"
    /\ lockHolder = NoThread
    /\ lockHolder' = t
    /\ thr' = [thr EXCEPT ![t].pc = "check2", ![t].viaLock = TRUE]
    /\ UNCHANGED <<conn, connects, dbConfigured>>
    /\ UNCHANGED <<planVars, orchVars, fetchVars, fnVars, reportVars>>

\* The check under the lock; a hit returns and releases the lock.
GetConnCheck2(t) ==
    /\ thr[t].pc = "check2"
    /\ IF SecondCheckHit(conn)
       THEN /\ thr' = [thr EXCEPT ![t].pc = "query", ![t].handle = conn]
            /\ lockHolder' = NoThread
       ELSE /\ thr' = [thr EXCEPT ![t].pc = "connect"]
            /\ lockHolder' = lockHolder
    /\ UNCHANGED <<conn, connects, dbConfigured>>
    /\ UNCHANGED <<planVars, orchVars, fetchVars, fnVars, reportVars>>

\* The settings are checked and psycopg2.connect is called: without the
\* DB_* settings a RuntimeError is raised, the connect may fail, and a
\* successful connect is assigned to _conn.
GetConnConnect(t) ==
    /\ thr[t].pc = "connect"
    /\ \E ok \in BOOLEAN :
         /\ ok => dbConfigured
         /\ IF ok
            THEN /\ conn' = connects + 1
                 /\ connects' = connects + 1
                 /\ thr' = [thr EXCEPT ![t].pc = "autocommit"]
                 /\ lockHolder' = lockHolder
            ELSE /\ thr' = [thr EXCEPT ![t] = StoreOpFails(t)]
                 /\ lockHolder' = NoThread
                 /\ UNCHANGED <<conn, connects>>
    /\ UNCHANGED dbConfigured
    /\ UNCHANGED <<planVars, orchVars, fetchVars, fnVars, reportVars>>

\* _conn.autocommit = True; return _conn, which releases the lock.
GetConnReturn(t) ==
    /\ thr[t].pc = "autocommit"
    /\ thr' = [thr EXCEPT ![t].pc = "query", ![t].handle = conn]
    /\ lockHolder' = NoThread
    /\ UNCHANGED <<conn, connects, dbConfigured>>
    /\ UNCHANGED <<planVars, orchVars, fetchVars, fnVars, reportVars>>

\* The statement of the operation on the handle: it succeeds (a read finds
\* rows or none) or raises.
RunQuery(t) ==
    /\ thr[t].pc = "query"
    /\ \E out \in {"ok", "empty", "raise"} :
         LET op == thr[t].op
             result == IF op \in WriteOps THEN "true"
                       ELSE IF out = "empty" /\ op # "fetch_severity_summary"
                            THEN "absent" ELSE "payload"
         IN  thr' = [thr EXCEPT ![t] =
                       IF out = "raise" THEN StoreOpFails(t)
                       ELSE [@ EXCEPT !.pc = "done", !.result = result,
                                      !.answer = EndpointAnswer(op, result)]]
    /\ UNCHANGED <<conn, lockHolder, connects, dbConfigured>>
    /\ UNCHANGED <<planVars, orchVars, fetchVars, fnVars, reportVars>>

\* The caller goes on to its next operation.
EndOp(t) ==
    /\ thr[t].pc = "done"
    /\ thr' = [thr EXCEPT ![t] = IdleThread]
    /\ UNCHANGED <<conn, lockHolder, connects, dbConfigured>>
    /\ UNCHANGED <<planVars, orchVars, fetchVars, fnVars, reportVars>>

StoreInit ==
    /\ conn = 0
    /\ lockHolder = NoThread
    /\ connects = 0
    /\ thr = [t \in Threads |-> IdleThread]

---------------------------------------------------------------------------
(* The repository fetcher: services/repo_fetcher.py, fetch_and_store_repo, *)
(* for one repo id.                                                        *)

\* Calls of fetch_and_store_repo in one behaviour.
MaxFetches == 3

\* The repository directory: whether it exists, which call's archive it
\* holds and whether manifest.json is in it.
NoDir == [exists |-> FALSE, version |-> 0, manifest |-> FALSE]

\* _parse_github_repo: only github.com URLs with an owner and a name parse.
ParseGithubRepo(url) == url = "github.com/owner/name"

\* The download: a response below 400 goes on, a response of 400 or more
\* and a requests exception raise RepoFetchError.
DownloadOk(download) == download = "200"

\* shutil.unpack_archive on the downloaded bytes.
UnpackOk(archive) == archive # "malformed"

\* _locate_extract_root: the first directory of the extraction, if any.
LocateOk(archive) == archive = "rooted"

\* upload_repo with a repo_url calls fetch_and_store_repo(payload.repo_id,
\* url) with the repo id as it was received; the URL is parsed.  All calls of
\* one behaviour are for the same repo id.
FetchCall ==
    /\ ft_pc \in {"idle", "ok", "failed"}
    /\ ft_count < MaxFetches
    /\ \E url \in {"github.com/owner/name", "gitlab.com/owner/name", "github.com/owner"},
          archive \in {"rooted", "malformed", "rootless"} :
         /\ ft_in' = [repo_id |-> ft_in.repo_id, url |-> url, archive |-> archive]
         /\ ft_pc' = IF ParseGithubRepo(url) THEN "download" ELSE "failed"
    /\ ft_count' = ft_count + 1
    /\ ft_before' = ft_dir
    /\ UNCHANGED <<ft_dir, ft_tmp>>
    /\ UNCHANGED <<planVars, orchVars, storeVars, fnVars, reportVars>>

\* requests.get(zip_url, timeout=60)
FetchDownload ==
    /\ ft_pc = "download"
    /\ \E download \in {"200", "404", "network_error"} :
         ft_pc' = IF DownloadOk(download) THEN "replace" ELSE "failed"
    /\ UNCHANGED <<ft_in, ft_dir, ft_before, ft_tmp, ft_count>>
    /\ UNCHANGED <<planVars, orchVars, storeVars, fnVars, reportVars>>

\* if repo_dir.exists(): shutil.rmtree(repo_dir)
FetchRemoveOld ==
    /\ ft_pc = "replace"
    /\ ft_dir' = NoDir
    /\ ft_pc' = "unpack"
    /\ UNCHANGED <<ft_in, ft_before, ft_tmp, ft_count>>
    /\ UNCHANGED <<planVars, orchVars, storeVars, fnVars, reportVars>>

\* Inside the temporary directory: the archive is written and unpacked.  An
\* exception leaves the with block, which removes the temporary directory.
FetchUnpack ==
    /\ ft_pc = "unpack"
    /\ IF UnpackOk(ft_in.archive)
       THEN ft_tmp' = "extracted" /\ ft_pc' = "locate"
       ELSE ft_tmp' = "none" /\ ft_pc' = "failed"
    /\ UNCHANGED <<ft_in, ft_dir, ft_before, ft_count>>
    /\ UNCHANGED <<planVars, orchVars, storeVars, fnVars, reportVars>>

\* _locate_extract_root, then shutil.move of the root to the repository
\* directory; the temporary directory is removed on both exits.
FetchMove ==
    /\ ft_pc = "locate"
    /\ IF LocateOk(ft_in.archive)
       THEN /\ ft_dir' = [exists |-> TRUE, version |-> ft_count, manifest |-> FALSE]
            /\ ft_pc' = "manifest"
       ELSE /\ ft_dir' = ft_dir
            /\ ft_pc' = "failed"
    /\ ft_tmp' = "none"
    /\ UNCHANGED <<ft_in, ft_before, ft_count>>
    /\ UNCHANGED <<planVars, orchVars, storeVars, fnVars, reportVars>>

\* _build_manifest and _write_manifest.
FetchWriteManifest ==
    /\ ft_pc = "manifest"
    /\ ft_dir' = [ft_dir EXCEPT !.manifest = TRUE]
    /\ ft_pc' = "ok"
    /\ UNCHANGED <<ft_in, ft_before, ft_tmp, ft_count>>
    /\ UNCHANGED <<planVars, orchVars, storeVars, fnVars, reportVars>>

FetchInit ==
    /\ ft_pc = "idle"
    /\ ft_in = [repo_id |-> "repoA", url |-> "", archive |-> ""]
    /\ ft_dir = NoDir
    /\ ft_before = NoDir
    /\ ft_tmp = "none"
    /\ ft_count = 0

---------------------------------------------------------------------------
(* The read endpoints of routers/operations.py over the run log and the    *)
(* persistent store, after simulate_attack executions made one at a time.  *)

\* simulate_attack executions in one behaviour.
MaxRuns == 2

\* Read requests in one behaviour.
MaxQueries == 2

_FALLBACK_MESSAGE == "Gemini unavailable"

NoReport == [repo_id |-> "", run_id |-> <<>>,
             summary |-> [overall_severity |-> "none", counts |-> <<>>,
                          affected_files |-> <<>>],
             ai_insight |-> "none"]

NoRp == [op |-> "none", status |-> 0, report |-> NoReport, runs |-> {}]

ReportIdle == rp = NoRp /\ queries = 0

\* Counter(seq): how often each value occurs, for the values that occur.
CountOf(seq) == [v \in Range(seq) |-> Cardinality({i \in 1..Len(seq) : seq[i] = v})]

\* The file paths of the plans, in the order sorted() puts them.
PathOrder == << ".github/workflows/deploy.yml", "app.py", "config.yaml",
                "deploy/k8s/rbac.yaml", "docker/entrypoint.sh", "util.py" >>

\* sorted(set(paths))
SortedPaths(paths) == FilterSeq(PathOrder, paths)

\* _build_report(run): the severities of the steps are counted and the
\* affected files of all steps sorted without duplicates.
BuildReport(run) ==
    LET steps == run.plan.steps
    IN  [repo_id |-> run.repo_id, run_id |-> run.run_id,
         summary |-> [overall_severity |-> run.plan.overall_severity,
                      counts |-> CountOf([i \in 1..Len(steps) |-> steps[i].severity]),
                      affected_files |->
                          SortedPaths(UNION {Range(steps[i].affected_files) :
                                               i \in 1..Len(steps)})],
         ai_insight |-> "none"]

\* WHERE repo_id = %s AND run_id = %s
RowsOfRun(rows, repo_id, run_id) ==
    SelectSeq(rows, LAMBDA r : r.repo_id = repo_id /\ r.run_id = run_id)

\* _build_report_payload(repo_id, run_row): the severities of the run's
\* affected_files rows are counted, the paths of the rows sorted without
\* duplicates, and the first insight row of the run attached.
BuildReportPayload(repo_id, run_row) ==
    LET files == RowsOfRun(store.files, repo_id, run_row.run_id)
        insight_row == RowsOfRun(store.insights, repo_id, run_row.run_id)
    IN  [repo_id |-> repo_id, run_id |-> run_row.run_id,
         summary |-> [overall_severity |-> run_row.overall_severity,
                      counts |-> CountOf([i \in 1..Len(files) |-> files[i].severity]),
                      affected_files |->
                          SortedPaths({files[i].file_path : i \in 1..Len(files)})],
         ai_insight |-> IF insight_row = <<>> THEN "none" ELSE insight_row[1].insight]

\* fetch_latest_simulation_report: ORDER BY created_at DESC LIMIT 1.  The
\* insert does not set created_at, so the rows are in insertion order and
\* the latest is the last one inserted for the repo id.
FetchLatestSimulationReport(repo_id) ==
    LET rows == SelectSeq(store.runs, LAMBDA r : r.repo_id = repo_id)
    IN  IF rows = <<>> THEN NoReport
        ELSE BuildReportPayload(repo_id, rows[Len(rows)])

\* fetch_simulation_report: WHERE repo_id = %s AND run_id = %s LIMIT 1
FetchSimulationReport(repo_id, run_id) ==
    LET rows == RowsOfRun(store.runs, repo_id, run_id)
    IN  IF rows = <<>> THEN NoReport ELSE BuildReportPayload(repo_id, rows[1])

\* list_simulations(repo_id): the runs of the repo id in the run log.
ListSimulations(repo_id) ==
    {runlog[id] : id \in {i \in RunIds : runlog[i] # NoRun /\ runlog[i].repo_id = repo_id}}

\* load_simulation(repo_id, run_id): the run, or NoRun for
\* SimulationNotFoundError.
LoadSimulation(repo_id, run_id) ==
    IF run_id \in RunIds /\ runlog[run_id].repo_id = repo_id THEN runlog[run_id]
    ELSE NoRun

\* summaries.sort(key=timestamp, reverse=True); summaries[0]
LatestSummary(summaries) ==
    CHOOSE run \in summaries : \A other \in summaries : other.timestamp <= run.timestamp

\* generate_ai_insight: nothing when use_gemini is off, the fallback message
\* without a key or when the endpoint fails, else the endpoint's text.
GenerateAiInsight(answer) ==
    IF ~settings.use_gemini THEN "none"
    ELSE IF ~settings.gemini_api_key \/ answer = "error" THEN _FALLBACK_MESSAGE
    ELSE "insight text"

\* _attach_ai_insight(run, report) for the endpoint's answer and the outcome
\* of store_ai_insight: the report it leaves and the store it leaves.
AttachAiInsight(run, report, answer, writeOk) ==
    LET insight == GenerateAiInsight(answer)
    IN  IF insight = "none" THEN [report |-> report, store |-> store]
        ELSE [report |-> [report EXCEPT !.ai_insight = insight],
              store |-> IF writeOk
                        THEN [store EXCEPT !.insights = Append(@,
                                [repo_id |-> run.repo_id, run_id |-> run.run_id,
                                 insight |-> insight])]
                        ELSE store]

\* A report served from the store: when it has no insight and the run is in
\* the run log, an insight is attached.
ServedFromStore(repo_id, report, answer, writeOk) ==
    LET run == LoadSimulation(repo_id, report.run_id)
    IN  IF report.ai_insight = "none" /\ run # NoRun
        THEN AttachAiInsight(run, report, answer, writeOk)
        ELSE [report |-> report, store |-> store]

\* The response and the store a report request leaves.
Answer(op, status, out) ==
    /\ rp' = [op |-> op, status |-> status, report |-> out.report, runs |-> {}]
    /\ store' = out.store

Refused == [report |-> NoReport, store |-> store]

\* One whole execution of simulate_attack that is not answered from the
\* cache, with the outcome of each of its two store writes; the gradient
\* task is taken to return a result.
SimulateRun ==
    /\ received < MaxRuns
    /\ \E repo \in Repos, t \in Times, resps \in OrchResponseSeqs,
          okRun \in BOOLEAN, okFiles \in BOOLEAN :
         LET manifest == ManifestOf(repo)
             profile  == [high_risk_files |-> SelectHighRiskFiles(manifest, 15)]
             gemini   == GenerateGeminiAttackPlan(profile, settings, resps)
             g        == IF manifest.present
                         THEN [plan |-> AttackPlanOf(gemini.result), calls |-> gemini.calls]
                         ELSE GenerateAttackPlan(repo)
             run      == SimulationRun(repo, t, g.plan)
             payload  == [run |-> run, gradient |-> GradientResult("result")]
         IN  /\ (okRun \/ okFiles) => dbConfigured
             /\ ClockRead(t)
             /\ PersistSimulation(run)
             /\ store' = [store EXCEPT
                            !.runs = IF okRun
                                     THEN Append(@, [repo_id |-> run.repo_id,
                                                     run_id |-> run.run_id,
                                                     overall_severity |->
                                                         run.plan.overall_severity,
                                                     timestamp |-> run.timestamp])
                                     ELSE @,
                            !.files = IF okFiles
                                      THEN @ \o StoredFileRows(run,
                                                   AffectedFileRows(run.plan.steps))
                                      ELSE @]
             /\ CacheWrite(repo, [present |-> TRUE, timestamp |-> t,
                                  simulation_data |-> payload, recv |-> t])
             /\ genCalls' = genCalls + g.calls
    /\ received' = received + 1
    /\ UNCHANGED req
    /\ UNCHANGED <<planVars, storeVars, fetchVars, fnVars, reportVars>>

\* get_latest_simulation_report(repo_id): the store is asked first, the run
\* log when the store has no run of the repo id; an exception of the store
\* read is answered with status 500.
GetLatestSimulationReport ==
    /\ queries < MaxQueries
    /\ \E repo_id \in RepoIds, readOk \in BOOLEAN, answer \in {"text", "error"},
          writeOk \in BOOLEAN :
         LET snowflake_report == FetchLatestSimulationReport(repo_id)
             summaries == ListSimulations(repo_id)
             run == LatestSummary(summaries)
         IN  /\ (readOk \/ writeOk) => dbConfigured
             /\ IF ~ValidateRepoId(repo_id) THEN Answer("latest_report", 400, Refused)
                ELSE IF ~readOk THEN Answer("latest_report", 500, Refused)
                ELSE IF snowflake_report # NoReport
                THEN Answer("latest_report", 200,
                            ServedFromStore(repo_id, snowflake_report, answer, writeOk))
                ELSE IF summaries = {} THEN Answer("latest_report", 404, Refused)
                ELSE Answer("latest_report", 200,
                            AttachAiInsight(run, BuildReport(run), answer, writeOk))
    /\ queries' = queries + 1
    /\ UNCHANGED <<now, cache, runlog, logWrites, req, received, genCalls>>
    /\ UNCHANGED <<planVars, storeVars, fetchVars, fnVars>>

\* get_simulation_report(repo_id, run_id): the store first, then the run log.
GetSimulationReport ==
    /\ queries < MaxQueries
    /\ \E repo_id \in RepoIds, run_id \in RunIds, readOk \in BOOLEAN,
          answer \in {"text", "error"}, writeOk \in BOOLEAN :
         LET snowflake_report == FetchSimulationReport(repo_id, run_id)
             run == LoadSimulation(repo_id, run_id)
         IN  /\ (readOk \/ writeOk) => dbConfigured
             /\ IF ~ValidateRepoId(repo_id) THEN Answer("report_by_run", 400, Refused)
                ELSE IF ~readOk THEN Answer("report_by_run", 500, Refused)
                ELSE IF snowflake_report # NoReport
                THEN Answer("report_by_run", 200,
                            ServedFromStore(repo_id, snowflake_report, answer, writeOk))
                ELSE IF run = NoRun THEN Answer("report_by_run", 404, Refused)
                ELSE Answer("report_by_run", 200,
                            AttachAiInsight(run, BuildReport(run), answer, writeOk))
    /\ queries' = queries + 1
    /\ UNCHANGED <<now, cache, runlog, logWrites, req, received, genCalls>>
    /\ UNCHANGED <<planVars, storeVars, fetchVars, fnVars>>

\* list_simulations_endpoint(repo_id)
ListSimulationsEndpoint ==
    /\ queries < MaxQueries
    /\ \E repo_id \in RepoIds :
         rp' = IF ~ValidateRepoId(repo_id)
               THEN [NoRp EXCEPT !.op = "list", !.status = 400]
               ELSE [NoRp EXCEPT !.op = "list", !.status = 200,
                                 !.runs = ListSimulations(repo_id)]
    /\ queries' = queries + 1
    /\ UNCHANGED orchVars
    /\ UNCHANGED <<planVars, storeVars, fetchVars, fnVars>>

\* get_simulation(repo_id, run_id)
GetSimulation ==
    /\ queries < MaxQueries
    /\ \E repo_id \in RepoIds, run_id \in RunIds :
         rp' = IF ~ValidateRepoId(repo_id)
               THEN [NoRp EXCEPT !.op = "detail", !.status = 400]
               ELSE IF LoadSimulation(repo_id, run_id) = NoRun
               THEN [NoRp EXCEPT !.op = "detail", !.status = 404]
               ELSE [NoRp EXCEPT !.op = "detail", !.status = 200,
                                 !.runs = {LoadSimulation(repo_id, run_id)}]
    /\ queries' = queries + 1
    /\ UNCHANGED orchVars
    /\ UNCHANGED <<planVars, storeVars, fetchVars, fnVars>>

---------------------------------------------------------------------------
(* Functions checked on their own: each is called once on an argument      *)
(* drawn at the start.                                                     *)

NoOut == [f |-> "none", val |-> <<>>]

\* No function is called.
FnIdle ==
    /\ fn_in = [f |-> "none", arg |-> <<>>]
    /\ fn_out = NoOut

\* The raw severity of a step of the model's output: absent, null, or a
\* string.
RawSeverities ==
    {JAbsent, JNull}
    \cup {Str(core, upper, pad) :
            core \in ALLOWED_SEVERITIES \cup {"severe", ""}, upper \in BOOLEAN,
            pad \in BOOLEAN}

\* _normalise_severity(value), used by _plan_from_dict for a step's severity:
\* a string is stripped and lower-cased; anything else, and a string that is
\* not an allowed severity, gives the default overall severity.
NormaliseSeverity(value) ==
    LET lowered == StrLower(StrStrip(value))
    IN  IF value.t = "str" /\ InAllowed(lowered) THEN lowered.core
        ELSE DEFAULT_OVERALL_SEVERITY

\* _parse_and_validate_attack_plan works out the severity of a step.
StepSeverityCall ==
    /\ fn_in.f = "severity" /\ fn_out = NoOut
    /\ fn_out' = [f |-> "step_severity", val |-> StepSeverity(fn_in.arg)]
    /\ UNCHANGED fn_in
    /\ UNCHANGED <<planVars, orchVars, storeVars, fetchVars, reportVars>>

\* _plan_from_dict works out the severity of a step.
NormaliseSeverityCall ==
    /\ fn_in.f = "severity" /\ fn_out = NoOut
    /\ fn_out' = [f |-> "normalise_severity", val |-> NormaliseSeverity(fn_in.arg)]
    /\ UNCHANGED fn_in
    /\ UNCHANGED <<planVars, orchVars, storeVars, fetchVars, reportVars>>

\* A file of the extracted repository: its suffix ("code" for .py and the
\* like, "shell" for .sh, "bat" for .bat, "other"), whether a name, suffix or
\* path heuristic of _assess_risk hits it (named), whether it can be read,
\* and its content.
DirFile(path, suffix, size, named, readable, content) ==
    [path |-> path, suffix |-> suffix, size |-> size, named |-> named,
     readable |-> readable, content |-> content]

\* _scan_file_content of repo_fetcher: the classes of _DANGEROUS_PATTERNS
\* with a pattern that matches the content.
ScanFileContent(content) ==
    {c \in {"sql_injection", "command_injection", "hardcoded_secrets", "xss_vulnerable"} :
        \/ c = "sql_injection"     /\ "execute('q'+x)" \in content
        \/ c = "command_injection" /\ content \cap {"os.system(", "eval("} # {}
        \/ c = "hardcoded_secrets" /\ "password='hunter2hunter2'" \in content
        \/ c = "xss_vulnerable"    /\ "innerHTML=" \in content}

\* The content scan of _assess_risk: code files under 500 KB are read and
\* scanned, and a read error is swallowed.
RiskScan(f) ==
    IF f.suffix \in {"code", "shell"} /\ f.size < 500 * 1024 /\ f.readable
    THEN ScanFileContent(f.content) ELSE {}

\* The reasons of the heuristics of _assess_risk, one reason standing for
\* the five.
HeuristicReasons(f) ==
    IF f.named THEN <<"Filename contains sensitive keyword">> ELSE <<>>

\* A risk level that puts the heuristics before the content scan.
AssessRiskNameFirst(f) ==
    IF f.named THEN "high"
    ELSE IF RiskScan(f) # {} THEN "critical"
    ELSE IF f.suffix \in {"shell", "bat"} THEN "medium"
    ELSE "low"

\* _assess_risk: the risk level.
AssessRisk(f) ==
    IF RiskScan(f) # {} THEN "critical"
    ELSE IF HeuristicReasons(f) # <<>> THEN "high"
    ELSE IF f.suffix \in {"shell", "bat"} THEN "medium"
    ELSE "low"

\* _assess_risk: the reasons returned with the level, a finding of the scan
\* as the name of its class.
RiskReasons(f) ==
    IF RiskScan(f) # {}
    THEN HeuristicReasons(f)
         \o FilterSeq(<<"sql_injection", "command_injection", "hardcoded_secrets",
                        "xss_vulnerable">>, RiskScan(f))
    ELSE IF HeuristicReasons(f) # <<>> THEN HeuristicReasons(f)
    ELSE IF f.suffix \in {"shell", "bat"} THEN <<"Executable script">>
    ELSE <<>>

\* A manifest whose high_risk_file_count takes in the critical entries.
BuildManifestCountingCritical(dir_files) ==
    LET files == [i \in 1..Len(dir_files) |->
                     [path |-> dir_files[i].path, size |-> dir_files[i].size,
                      risk_level |-> AssessRisk(dir_files[i])]]
    IN  [file_count |-> Len(files),
         high_risk_file_count |->
             Cardinality({i \in 1..Len(files) :
                            files[i].risk_level \in {"high", "critical"}}),
         files |-> files]

\* _build_manifest: one entry per file, and the counters.
BuildManifest(dir_files) ==
    LET files == [i \in 1..Len(dir_files) |->
                     [path |-> dir_files[i].path, size |-> dir_files[i].size,
                      risk_level |-> AssessRisk(dir_files[i])]]
    IN  [file_count |-> Len(files),
         high_risk_file_count |->
             Cardinality({i \in 1..Len(files) : files[i].risk_level = "high"}),
         files |-> files]

\* Most files of an extracted repository.
MaxDirFiles == 2

DirFiles ==
    { DirFile("config.yaml", "other", 5, TRUE, TRUE, {}),
      DirFile("app.py", "code", 20, FALSE, TRUE, {"os.system("}),
      DirFile("deploy.py", "code", 30, TRUE, TRUE, {"execute('q'+x)"}),
      DirFile("huge_token.py", "code", 600000, TRUE, TRUE, {"eval("}),
      DirFile("run.sh", "shell", 8, FALSE, TRUE, {}),
      DirFile("README.md", "other", 9, FALSE, TRUE, {}) }

\* Files that _assess_risk does not scan or cannot read, and a script with a
\* finding.
OddDirFiles ==
    { DirFile("locked.py", "code", 20, FALSE, FALSE, {"os.system("}),
      DirFile("big.py", "code", 500 * 1024, FALSE, TRUE, {"eval("}),
      DirFile("run.bat", "bat", 8, FALSE, TRUE, {"os.system("}),
      DirFile("notes.txt", "other", 8, FALSE, TRUE, {"password='hunter2hunter2'"}),
      DirFile("setup.sh", "shell", 8, FALSE, TRUE, {"eval("}) }

\* _build_manifest calls _assess_risk for a file.
AssessRiskCall ==
    /\ fn_in.f = "assess" /\ fn_out = NoOut
    /\ fn_out' = [f |-> "assess_risk",
                  val |-> [risk_level |-> AssessRisk(fn_in.arg),
                           risk_reasons |-> RiskReasons(fn_in.arg)]]
    /\ UNCHANGED fn_in
    /\ UNCHANGED <<planVars, orchVars, storeVars, fetchVars, reportVars>>

\* fetch_and_store_repo builds the manifest of the extracted files.
BuildManifestCall ==
    /\ fn_in.f = "manifest" /\ fn_out = NoOut
    /\ fn_out' = [f |-> "build_manifest", val |-> BuildManifest(fn_in.arg)]
    /\ UNCHANGED fn_in
    /\ UNCHANGED <<planVars, orchVars, storeVars, fetchVars, reportVars>>

\* Most entries of a manifest given to select_high_risk_files.
MaxSelFiles == 3

\* Manifest entries with and without a vulnerabilities field, of several
\* sizes and risk levels.
SelEntries ==
    { FileInfo("a.py", 5, "low", {"sql_injection"}, TRUE, {}),
      FileInfo("b.py", 900, "critical", {}, TRUE, {}),
      FileInfo("c.py", 20, "critical", {"sql_injection", "command_injection"}, TRUE, {}),
      FileInfo("d.yaml", 900, "high", {}, TRUE, {}),
      FileInfo("e.py", 5, "critical", {}, TRUE, {}) }

\* select_high_risk_files(manifest, limit) is called.
SelectHighRiskFilesCall ==
    /\ fn_in.f = "select" /\ fn_out = NoOut
    /\ fn_out' = [f |-> "select_high_risk_files",
                  val |-> SelectHighRiskFiles([files |-> fn_in.arg.files],
                                              fn_in.arg.limit)]
    /\ UNCHANGED fn_in
    /\ UNCHANGED <<planVars, orchVars, storeVars, fetchVars, reportVars>>

\* A text is a sequence of tokens: "ws" is a run of one whitespace
\* character, "ba" followed by "sh" spells bash, and every token of
\* KeyChars counts as one character of [0-9A-Za-z_-].  Of the patterns of
\* _sanitize_text, rm\s+-rf, bash\s+, sh\s+, exec\( and the first API-key
\* pattern are modelled; curl\s+ and wget\s+ are like sh\s+, and eval\(,
\* os\.system and subprocess\. like exec\(.
TextTokens == {"rm", "ws", "-rf", "ba", "sh", "exec(", "AIza", "k"}

KeyChars == {"rm", "-rf", "ba", "sh", "AIza", "k"}

\* The characters after AIza in an API key: 35 in the code, scaled down.
KeyBodyLen == 2

\* Longest text given to _sanitize_text.
MaxTextLen == 4

\* The number of whitespace tokens at the head of t.
RECURSIVE WsRun(_)
WsRun(t) == IF t # <<>> /\ Head(t) = "ws" THEN 1 + WsRun(Tail(t)) ELSE 0

\* t[n:]
Drop(t, n) == SubSeq(t, n + 1, Len(t))

\* re.match(pattern, t): the length of the match at the head of t, 0 for none.
MatchLen(pattern, t) ==
    CASE pattern = "rm\\s+-rf" ->
           LET w == WsRun(Tail(t))
           IN  IF Head(t) = "rm" /\ w >= 1 /\ Len(t) >= w + 2 /\ t[w + 2] = "-rf"
               THEN w + 2 ELSE 0
      [] pattern = "bash\\s+" ->
           IF Head(t) = "ba" /\ Len(t) >= 2 /\ t[2] = "sh" /\ WsRun(Drop(t, 2)) >= 1
           THEN 2 + WsRun(Drop(t, 2)) ELSE 0
      [] pattern = "sh\\s+" ->
           IF Head(t) = "sh" /\ WsRun(Tail(t)) >= 1 THEN 1 + WsRun(Tail(t)) ELSE 0
      [] pattern = "exec\\(" -> IF Head(t) = "exec(" THEN 1 ELSE 0
      [] pattern = "AIza[0-9A-Za-z_-]{35}" ->
           IF /\ Head(t) = "AIza" /\ Len(t) >= 1 + KeyBodyLen
              /\ \A i \in 2..(1 + KeyBodyLen) : t[i] \in KeyChars
           THEN 1 + KeyBodyLen ELSE 0

\* re.sub(pattern, marker, t): the matches are replaced from left to right,
\* each search going on behind the match before.
RECURSIVE ReSub(_, _, _)
ReSub(pattern, marker, t) ==
    IF t = <<>> THEN <<>>
    ELSE LET n == MatchLen(pattern, t)
         IN  IF n > 0 THEN marker \o ReSub(pattern, marker, Drop(t, n))
             ELSE <<Head(t)>> \o ReSub(pattern, marker, Tail(t))

\* str.strip() of a text.
RECURSIVE StripText(_)
StripText(t) ==
    IF t = <<>> THEN <<>>
    ELSE IF Head(t) = "ws" THEN StripText(Tail(t))
    ELSE IF t[Len(t)] = "ws" THEN StripText(SubSeq(t, 1, Len(t) - 1))
    ELSE t

\* A replacement that deletes the match and leaves no marker.
DeletedText == <<>>

\* The marker put in place of a dangerous pattern.
RedactedText == <<"[REDACTED]">>

\* _sanitize_text(text): the dangerous patterns are replaced one after the
\* other in the order of the list, then the API keys, then the text is
\* stripped.
SanitizeText(text) ==
    LET t1 == ReSub("rm\\s+-rf", RedactedText, text)
        t2 == ReSub("bash\\s+", RedactedText, t1)
        t3 == ReSub("sh\\s+", RedactedText, t2)
        t4 == ReSub("exec\\(", RedactedText, t3)
        t5 == ReSub("AIza[0-9A-Za-z_-]{35}", <<"[REDACTED_API_KEY]">>, t4)
    IN  StripText(t5)

\* _sanitize_text is called.
SanitizeTextCall ==
    /\ fn_in.f = "text" /\ fn_out = NoOut
    /\ fn_out' = [f |-> "sanitize_text", val |-> SanitizeText(fn_in.arg)]
    /\ UNCHANGED fn_in
    /\ UNCHANGED <<planVars, orchVars, storeVars, fetchVars, reportVars>>

\* Most high-risk files of a profile whose fallback plan is built.
MaxScanFiles == 4

\* Files of a repository as the synthesizer's scan meets them: three with a
\* hardcoded secret alone, one with a command injection, one with an SQL
\* injection and a secret, one with an XSS pattern alone, one with nothing.
ScanFiles ==
    { FileInfo("env.py", 10, "critical", {}, TRUE, {"password='hunter2hunter2'"}),
      FileInfo("settings.py", 11, "critical", {}, TRUE, {"password='hunter2hunter2'"}),
      FileInfo("conf.py", 12, "critical", {}, TRUE, {"password='hunter2hunter2'"}),
      FileInfo("cmd.py", 13, "critical", {}, TRUE, {"os.system("}),
      FileInfo("app.py", 20, "critical", {}, TRUE,
               {"query(f'", "password='hunter2hunter2'"}),
      FileInfo("page.js", 14, "low", {}, TRUE, {"innerHTML="}),
      FileInfo("util.py", 15, "low", {}, TRUE, {"print(1)"}) }

\* The file lists of a manifest: no path twice.
ScanFileLists ==
    {fs \in SeqsUpTo(ScanFiles, MaxScanFiles) :
        \A i, j \in 1..Len(fs) : i # j => fs[i] # fs[j]}

\* generate_gemini_attack_plan with generation unavailable: step 1 builds
\* the code samples and step 2 returns _build_fallback_plan of them.
FallbackPlanCall ==
    /\ fn_in.f = "fallback" /\ fn_out = NoOut
    /\ fn_out' = [f |-> "fallback_plan",
                  val |-> BuildFallbackPlan(BuildCodeSamples(fn_in.arg))]
    /\ UNCHANGED fn_in
    /\ UNCHANGED <<planVars, orchVars, storeVars, fetchVars, reportVars>>

FnInputs ==
    {[f |-> "severity", arg |-> raw] : raw \in RawSeverities}
    \cup {[f |-> "fallback", arg |-> fs] : fs \in ScanFileLists}
    \cup {[f |-> "assess", arg |-> file] : file \in DirFiles \cup OddDirFiles}
    \cup {[f |-> "text", arg |-> t] : t \in SeqsUpTo(TextTokens, MaxTextLen)}
    \cup {[f |-> "select", arg |-> [files |-> fs, limit |-> limit]] :
            fs \in SeqsUpTo(SelEntries, MaxSelFiles), limit \in {2, 15}}
    \cup {[f |-> "manifest", arg |-> fs] : fs \in SeqsUpTo(DirFiles, MaxDirFiles)}

---------------------------------------------------------------------------
(* The specifications.                                                     *)

PlanInit ==
    /\ gp_pc = "scan"
    /\ gp_profile \in Profiles
    /\ settings \in SettingsSet
    /\ gp_samples = <<>>
    /\ gp_retry = 0
    /\ gp_calls = 0
    /\ gp_last = "none"
    /\ gp_result = NoPlan
    /\ OrchInit
    /\ StoreInit /\ dbConfigured = FALSE
    /\ ReportIdle
    /\ FnIdle
    /\ FetchInit

PlanNext == GpScan \/ GpCall

\* One call of generate_gemini_attack_plan for every profile and setting.
SpecPlan == PlanInit /\ [][PlanNext]_vars

Init ==
    /\ PlanOtherInit
    /\ settings = [use_gemini |-> TRUE, gemini_api_key |-> TRUE]
    /\ OrchInit
    /\ StoreInit /\ dbConfigured \in BOOLEAN
    /\ ReportIdle
    /\ FnIdle
    /\ ft_pc = "idle"
    /\ ft_in = [repo_id |-> "repoA", url |-> "", archive |-> ""]
    /\ ft_dir \in {NoDir, IngestedDir}
    /\ ft_before = NoDir
    /\ ft_tmp = "none"
    /\ ft_count = 0

Next ==
    \E c \in Clients :
        \/ Reject(c) \/ CacheHit(c) \/ StartPipeline(c) \/ StartLegacy(c) \/ Synthesize(c)
        \/ StoreRun(c) \/ StoreFiles(c) \/ Gradient(c) \/ Return(c)

\* Concurrent simulate_attack requests.
Spec == Init /\ [][Next]_vars

StoreSpecInit ==
    /\ PlanOtherInit
    /\ settings = [use_gemini |-> FALSE, gemini_api_key |-> FALSE]
    /\ OrchInit
    /\ StoreInit /\ dbConfigured \in BOOLEAN
    /\ ReportIdle
    /\ FnIdle
    /\ FetchInit

StoreSpecNext ==
    \E t \in Threads :
        \/ BeginOp(t) \/ GetConnCheck1(t) \/ GetConnAcquire(t) \/ GetConnCheck2(t)
        \/ GetConnConnect(t) \/ GetConnReturn(t) \/ RunQuery(t) \/ EndOp(t)

\* Threads calling the store operations.
SpecStore == StoreSpecInit /\ [][StoreSpecNext]_vars

FetchSpecInit ==
    /\ PlanOtherInit
    /\ settings = [use_gemini |-> FALSE, gemini_api_key |-> FALSE]
    /\ OrchInit
    /\ StoreInit /\ dbConfigured = FALSE
    /\ ReportIdle
    /\ FnIdle
    /\ ft_pc = "idle"
    /\ ft_in \in {[repo_id |-> r, url |-> "", archive |-> ""] : r \in RepoIds}
    /\ ft_dir = NoDir
    /\ ft_before = NoDir
    /\ ft_tmp = "none"
    /\ ft_count = 0

FetchSpecNext ==
    \/ FetchCall \/ FetchDownload \/ FetchRemoveOld \/ FetchUnpack \/ FetchMove
    \/ FetchWriteManifest

\* Calls of fetch_and_store_repo, one after the other.
SpecFetch == FetchSpecInit /\ [][FetchSpecNext]_vars

FnSpecInit ==
    /\ PlanOtherInit
    /\ settings = [use_gemini |-> FALSE, gemini_api_key |-> FALSE]
    /\ OrchInit
    /\ StoreInit /\ dbConfigured = FALSE
    /\ ReportIdle
    /\ FetchInit
    /\ fn_in \in FnInputs
    /\ fn_out = NoOut

FnSpecNext ==
    \/ StepSeverityCall \/ NormaliseSeverityCall \/ BuildManifestCall
    \/ SelectHighRiskFilesCall \/ SanitizeTextCall \/ FallbackPlanCall
    \/ AssessRiskCall

\* One call of one function on every argument.
SpecFn == FnSpecInit /\ [][FnSpecNext]_vars

ReportSpecInit ==
    /\ PlanOtherInit
    /\ settings = [use_gemini |-> TRUE, gemini_api_key |-> TRUE]
    /\ OrchInit
    /\ StoreInit
    /\ dbConfigured \in BOOLEAN
    /\ FnIdle
    /\ ReportIdle
    /\ ft_pc = "idle"
    /\ ft_in = [repo_id |-> "repoA", url |-> "", archive |-> ""]
    /\ ft_dir \in {NoDir, IngestedDir}
    /\ ft_before = NoDir
    /\ ft_tmp = "none"
    /\ ft_count = 0

ReportSpecNext ==
    \/ SimulateRun \/ GetLatestSimulationReport \/ GetSimulationReport
    \/ ListSimulationsEndpoint \/ GetSimulation

\* simulate_attack executions one at a time, and read requests.
SpecReport == ReportSpecInit /\ [][ReportSpecNext]_vars

---------------------------------------------------------------------------
(* The claims.                                                             *)

\* C1: for every profile, every setting and every behaviour of the generation
\* endpoint, generate_gemini_attack_plan(profile, 3) stays inside its loop
\* until it returns, and what it returns is a plan with one to three steps
\* and an overall_severity among low, medium, high, critical.
C1_PlanAlwaysWellFormed ==
    /\ gp_pc \in {"scan", "loop", "done"}
    /\ gp_pc = "loop" => gp_retry <= max_retries
    /\ gp_pc = "done" =>
          /\ gp_result # NoPlan
          /\ Len(gp_result.steps) \in 1..MaxSteps
          /\ gp_result.overall_severity \in ALLOWED_SEVERITIES

\* C1 happens: the endpoint answered three times with text that holds no
\* usable plan, and the plan returned is the fallback made from the scan.
C1_Witness ==
    /\ gp_pc = "done"
    /\ gp_calls = 3
    /\ gp_last = "invalid"
    /\ gp_result.plan_source = "fallback_with_scan_results"
    /\ Len(gp_result.steps) = 3

\* Client c's request, of a valid repo id, arrives in this step:
\* simulate_attack runs up to its first await or its return.
Arrives(c) == req[c].pc = "idle" /\ req'[c].pc \notin {"idle", "rejected"}

\* Client c's request writes its run record in this step.
Persists(c) == req[c].pc \in {"idle", "synth"} /\ req'[c].pc = "store_run"

\* C2: a request with force=false that arrives when the cache entry of its
\* repo id is younger than 600 seconds returns in the same step with the
\* stored payload, and the step changes neither the cache, nor the run log,
\* nor the store, nor the count of generation-endpoint calls.
C2_FreshEntryServedUntouched ==
    [][\A c \in Clients :
         (/\ Arrives(c)
          /\ ~req'[c].force
          /\ cache[req'[c].repo].present
          /\ req'[c].recv - cache[req'[c].repo].timestamp < CacheTtl)
         => /\ req'[c].pc = "done"
            /\ req'[c].cached
            /\ req'[c].resp = cache[req'[c].repo].simulation_data
            /\ UNCHANGED <<cache, runlog, logWrites, store, genCalls>>]_vars

\* C2 happens: a request was answered from an entry 599 seconds old.
C2_Witness ==
    \E c \in Clients :
        /\ req[c].pc = "done" /\ req[c].cached /\ ~req[c].force
        /\ cache[req[c].repo].present
        /\ req[c].resp = cache[req[c].repo].simulation_data
        /\ req[c].recv = cache[req[c].repo].timestamp + CacheTtl - 1

\* C3 as stated: a request with force=false received 601 seconds or more
\* after the request that populated the cache was received is not served
\* from the cache and enters the pipeline.
C3_StaleSinceReceipt ==
    [][\A c \in Clients :
         (/\ Arrives(c)
          /\ ~req'[c].force
          /\ cache[req'[c].repo].present
          /\ req'[c].recv >= cache[req'[c].repo].recv + CacheTtl + 1)
         => /\ ~req'[c].cached
            /\ req'[c].pc \in {"synth", "store_run"}]_vars

\* C3 amended: a request with force=false whose cache check is made 601
\* seconds or more after the timestamp of the cached run is not served from
\* the cache and enters the pipeline, and a request that leaves the
\* synthesis writes its run into the run log.
C3_StaleSinceRunTimestamp ==
    [][\A c \in Clients :
         /\ (/\ Arrives(c)
              /\ ~req'[c].force
              /\ cache[req'[c].repo].present
              /\ req'[c].recv >= cache[req'[c].repo].timestamp + CacheTtl + 1)
             => /\ ~req'[c].cached
                /\ req'[c].pc \in {"synth", "store_run"}
         /\ Persists(c)
             => /\ runlog'[req'[c].run.run_id] = req'[c].run
                /\ logWrites'[req'[c].run.run_id] = logWrites[req'[c].run.run_id] + 1]_vars

\* C3 amended happens: a request with force=false found an entry whose run
\* is 601 seconds old and has persisted a new run.
C3_Witness ==
    \E c \in Clients :
        /\ req[c].pc = "store_run" /\ ~req[c].force
        /\ cache[req[c].repo].present
        /\ req[c].recv = cache[req[c].repo].timestamp + CacheTtl + 1
        /\ runlog[req[c].run.run_id] = req[c].run
        /\ req[c].run.run_id # cache[req[c].repo].simulation_data.run.run_id

\* C4: a request with force=true is never served from the cache, the run it
\* persists goes under a run id no run was written under before, and the
\* cache entry of its repo id becomes its response when it finishes.
C4_ForcedRunIsNew ==
    [][\A c \in Clients :
         /\ (Arrives(c) /\ req'[c].force)
             => ~req'[c].cached /\ req'[c].pc \in {"synth", "store_run"}
         /\ (Persists(c) /\ req'[c].force)
             => logWrites[req'[c].run.run_id] = 0
         /\ (req[c].pc = "gradient" /\ req'[c].pc = "done" /\ req[c].force)
             => cache'[req[c].repo].simulation_data = req'[c].resp]_vars

\* C5: a request that finishes the pipeline leaves its own response in the
\* cache, whether or not another request wrote the entry while it was in
\* flight and whichever of the two runs is the newer: the last writer wins.
C5_LastWriterWins ==
    [][\A c \in Clients :
         (req[c].pc = "gradient" /\ req'[c].pc = "done")
         => /\ cache'[req[c].repo].present
            /\ cache'[req[c].repo].simulation_data = req'[c].resp
            /\ cache'[req[c].repo].timestamp = req[c].run.timestamp]_vars

\* C5 happens: two requests with force=false for the same repo id were both
\* received before either run was made, both ran the pipeline and persisted
\* a run, and the cache holds the response of the one that wrote last, here
\* the one with the older run.
C5_Witness ==
    /\ req[1].pc = "done" /\ req[2].pc = "done"
    /\ req[1].repo = req[2].repo
    /\ ~req[1].force /\ ~req[2].force
    /\ ~req[1].cached /\ ~req[2].cached
    /\ req[1].recv < req[2].run.timestamp /\ req[2].recv < req[1].run.timestamp
    /\ req[1].run.timestamp < req[2].run.timestamp
    /\ runlog[req[1].run.run_id] = req[1].run
    /\ runlog[req[2].run.run_id] = req[2].run
    /\ cache[req[1].repo].simulation_data = req[1].resp

\* C6: every run id is written to the run log at most once.
C6_RunWrittenOnce == \A id \in RunIds : logWrites[id] <= 1

\* C8: no request ends in a failure; a request answered by the pipeline has
\* its run in the run log and in its response, the cache holds an entry for
\* its repo id, and the gradient field is the error marker when the task
\* raised and the unavailable marker when it returned nothing.
C8_FailuresDoNotAbort ==
    \A c \in Clients :
        /\ req[c].pc # "failed"
        /\ (req[c].pc = "done" /\ ~req[c].cached)
            => /\ runlog[req[c].run.run_id] # NoRun
               /\ req[c].resp.run = req[c].run
               /\ cache[req[c].repo].present
               /\ req[c].task = "raise" => req[c].resp.gradient.status = "error"
               /\ req[c].task = "none" => req[c].resp.gradient.status = "unavailable"

\* C8 happens: the store took neither write, the task raised, and the
\* request was answered with its run, which is in the run log and the cache.
C8_Witness ==
    \E c \in Clients :
        /\ ~dbConfigured /\ store.runs = <<>> /\ store.files = <<>>
        /\ req[c].pc = "done" /\ ~req[c].cached
        /\ req[c].task = "raise"
        /\ req[c].resp.gradient.status = "error"
        /\ runlog[req[c].run.run_id] = req[c].run
        /\ cache[req[c].repo].simulation_data = req[c].resp
        /\ AffectedFileRows(req[c].run.plan.steps) # <<>>

\* C7: under every interleaving of the callers of _get_conn at most one
\* connect succeeds, _conn is the handle of that connect from then on (it is
\* never reset), and every caller that got a handle got that one.
C7_ConnectedAtMostOnce ==
    /\ connects <= 1
    /\ conn = connects
    /\ \A t \in Threads :
         /\ thr[t].handle \in {0, conn}
         /\ thr[t].pc = "query" => thr[t].handle = conn /\ conn # 0

\* C7 happens: two callers both found _conn unset at the first check and
\* both went through the lock; one connected, and both hold the one handle.
C7_Witness ==
    /\ connects = 1
    /\ \A t \in Threads :
         thr[t].pc = "query" /\ thr[t].viaLock /\ thr[t].handle = conn

\* C9: a read operation that met an error (no configuration, a failed
\* connect, a failed statement) returned an absent value, and the endpoint
\* answered from the run log.
C9_ReadsAbsentOnError ==
    \A t \in Threads :
        (thr[t].pc = "done" /\ thr[t].op \in ReadOps /\ thr[t].errored)
        => thr[t].result = "absent" /\ thr[t].answer = "log"

\* C10: when a call of fetch_and_store_repo has failed, the repository
\* directory is what it was before the call.
C10_FailureLeavesDirectory == ft_pc = "failed" => ft_dir = ft_before

\* C11: a request whose repo id does not match ^[A-Za-z0-9_-]+$ is rejected
\* before any work is done.  For upload_repo: with such an id the call never
\* gets to the download, to the repository directory or to the temporary
\* directory.
C11_InvalidIdDoesNoWork ==
    ~ValidateRepoId(ft_in.repo_id)
    => /\ ft_pc \in {"idle", "failed"}
       /\ ft_dir = NoDir /\ ft_tmp = "none"

\* C12: a request for a valid repo id without a manifest that is not served
\* from the cache gets the legacy static plan without any invocation of the
\* generation endpoint and persists its run in the arrival step; like every
\* request in the pipeline it never fails, and when it finishes its response
\* carries that run and is the cache entry of its repo id.
C12_NoManifestUsesLegacyPlan ==
    [][\A c \in Clients :
         /\ (Arrives(c) /\ ~req'[c].cached /\ ~ManifestOf(req'[c].repo).present)
             => /\ req'[c].pc = "store_run"
                /\ req'[c].run.plan = BuildDefaultPlan
                /\ genCalls' = genCalls
                /\ runlog'[req'[c].run.run_id] = req'[c].run
         /\ req'[c].pc # "failed"
         /\ (req[c].pc = "gradient" /\ req'[c].pc = "done")
             => /\ req'[c].resp.run = req[c].run
                /\ cache'[req[c].repo].simulation_data = req'[c].resp]_vars

\* C12 happens: with the generation endpoint configured and no manifest, a
\* request has returned the legacy plan's run, which is in the run log and in
\* the cache, and the endpoint was never invoked.
C12_Witness ==
    \E c \in Clients :
        /\ ~ManifestOf(req[c].repo).present
        /\ settings.use_gemini /\ settings.gemini_api_key
        /\ req[c].pc = "done" /\ ~req[c].cached
        /\ req[c].resp.run.plan = BuildDefaultPlan
        /\ runlog[req[c].resp.run.run_id] = req[c].resp.run
        /\ cache[req[c].repo].simulation_data = req[c].resp
        /\ genCalls = 0

\* C13: one call of generate_gemini_attack_plan invokes the generation
\* endpoint at most max_retries + 1 = 3 times, whatever the endpoint answers.
\* While the call is in its loop every invocation made so far has used up one
\* unit of the retry budget and budget is left, so the loop ends; and a call
\* that ended on an error response or on an unusable response has made all
\* three invocations and returned the fallback plan.
C13_AtMostThreeInvocations ==
    /\ gp_calls <= max_retries + 1
    /\ gp_pc = "loop" => (gp_calls = gp_retry /\ gp_retry <= max_retries)
    /\ (gp_pc = "done" /\ gp_last \in {"error", "invalid"})
        => /\ gp_calls = max_retries + 1
           /\ gp_result = BuildFallbackPlan(gp_samples)

\* C13 happens: the third invocation got an error response and the call
\* returned the fallback plan.
C13_Witness ==
    /\ gp_pc = "done"
    /\ gp_calls = max_retries + 1
    /\ gp_last = "error"
    /\ gp_result = BuildFallbackPlan(gp_samples)

\* The samples that carry a command-injection finding.
C14_CmdSamples == {i \in 1..Len(gp_samples) :
                     "command_injection" \in gp_samples[i].vulnerabilities}

\* The steps of the returned plan tagged "Command Injection".
C14_CmdSteps == {k \in 1..Len(gp_result.steps) :
                   gp_result.steps[k].vulnerability_type = "Command Injection"}

\* The findings the fallback lists before the command injection of sample i:
\* those of the earlier samples and the SQL injection of sample i.
C14_FindingsBefore(i) ==
    Len(FallbackSteps(Take(gp_samples, i - 1), 1))
    + (IF "sql_injection" \in gp_samples[i].vulnerabilities THEN 1 ELSE 0)

\* C14 as stated: with generation disabled or unconfigured the endpoint is
\* never invoked and the plan is a fallback; with two sampled files of which
\* exactly one has a command-injection finding, the plan has exactly one
\* "Command Injection" step and it names that file.
C14_OneCommandInjectionStep ==
    (gp_pc = "done" /\ ~(settings.use_gemini /\ settings.gemini_api_key))
    => /\ gp_calls = 0
       /\ gp_result.plan_source \in {"fallback", "fallback_with_scan_results"}
       /\ (Len(gp_samples) = 2 /\ Cardinality(C14_CmdSamples) = 1)
           => /\ Cardinality(C14_CmdSteps) = 1
              /\ \A k \in C14_CmdSteps : \A i \in C14_CmdSamples :
                    gp_result.steps[k].affected_files = <<gp_samples[i].file_path>>

\* C14 amended: the same, for a command-injection finding that fewer than
\* three findings precede in file order and class order; a finding with
\* three or more before it is cut by the cap of three steps.
C14_OneCommandInjectionStepWithinCap ==
    (gp_pc = "done" /\ ~(settings.use_gemini /\ settings.gemini_api_key))
    => /\ gp_calls = 0
       /\ gp_result.plan_source \in {"fallback", "fallback_with_scan_results"}
       /\ (Len(gp_samples) = 2 /\ Cardinality(C14_CmdSamples) = 1)
           => \A i \in C14_CmdSamples :
                IF C14_FindingsBefore(i) < 3
                THEN /\ Cardinality(C14_CmdSteps) = 1
                     /\ \A k \in C14_CmdSteps :
                           gp_result.steps[k].affected_files = <<gp_samples[i].file_path>>
                ELSE C14_CmdSteps = {}

\* C14 amended happens: generation is switched on but has no key, two files
\* were sampled, the second alone has a command injection, and the plan's
\* one "Command Injection" step names it.
C14_Witness ==
    /\ gp_pc = "done"
    /\ settings.use_gemini /\ ~settings.gemini_api_key
    /\ gp_calls = 0
    /\ Len(gp_samples) = 2
    /\ C14_CmdSamples = {2}
    /\ Cardinality(C14_CmdSteps) = 1
    /\ \A k \in C14_CmdSteps :
          gp_result.steps[k].affected_files = <<gp_samples[2].file_path>>

\* The severity C15 asks for: the raw string lower-cased and stripped when
\* that is an allowed severity, medium otherwise.
C15_Expected(raw) ==
    LET v == StrStrip(StrLower(raw))
    IN  IF raw.t = "str" /\ InAllowed(v) THEN v.core ELSE "medium"

\* C15: on both paths from model output to plan steps the severity of a
\* step is the raw severity lower-cased and stripped when that is an allowed
\* severity, and medium exactly when the raw severity is absent or not
\* allowed after that normalisation.
C15_SeverityNormalised ==
    fn_out.f \in {"step_severity", "normalise_severity"}
    => fn_out.val = C15_Expected(fn_in.arg)

\* The steps of a run that have the severity sev.
C16_StepsOf(run, sev) ==
    Cardinality({i \in 1..Len(run.plan.steps) : run.plan.steps[i].severity = sev})

\* The count a report summary gives for the severity sev.
C16_CountIn(summary, sev) ==
    IF sev \in DOMAIN summary.counts THEN summary.counts[sev] ELSE 0

\* The store holds every affected-file row of the run, once.
C16_FilesStored(run) ==
    RowsOfRun(store.files, run.repo_id, run.run_id)
        = StoredFileRows(run, AffectedFileRows(run.plan.steps))

\* C16: every report of a persisted run, from the latest-report query or the
\* by-run query, gives for each severity the number of the run's steps of
\* that severity and lists the sorted union of the steps' affected files,
\* whether it was built from the run log or from the persistent store.  It
\* is checked for the runs written once whose store writes all got through
\* or whose run row is not in the store.
C16_ReportTalliesSteps ==
    (/\ rp.op \in {"latest_report", "report_by_run"} /\ rp.status = 200
     /\ LoadSimulation(rp.report.repo_id, rp.report.run_id) # NoRun
     /\ logWrites[rp.report.run_id] = 1
     /\ \/ RowsOfRun(store.runs, rp.report.repo_id, rp.report.run_id) = <<>>
        \/ C16_FilesStored(LoadSimulation(rp.report.repo_id, rp.report.run_id)))
    => LET run == LoadSimulation(rp.report.repo_id, rp.report.run_id)
       IN  /\ \A sev \in ALLOWED_SEVERITIES :
                 C16_CountIn(rp.report.summary, sev) = C16_StepsOf(run, sev)
           /\ rp.report.summary.affected_files =
                 SortedPaths(UNION {Range(run.plan.steps[i].affected_files) :
                                      i \in 1..Len(run.plan.steps)})

\* C17: after any sequence of simulate_attack executions for a repo id, with
\* store writes that may fail one by one, a latest-report query that is
\* answered with a report answers with the report of the run that has the
\* greatest timestamp among the persisted runs of the repo id.
C17_LatestIsGreatestTimestamp ==
    (rp.op = "latest_report" /\ rp.status = 200)
    => rp.report.run_id = LatestSummary(ListSimulations(rp.report.repo_id)).run_id

\* C18: the high_risk_file_count of a manifest is the number of its entries
\* whose risk_level is high; the entries rated critical, medium or low are
\* the rest of the file_count.
C18_HighRiskCountIsHighOnly ==
    fn_out.f = "build_manifest"
    => LET m == fn_out.val
           Rated(levels) == Cardinality({i \in 1..Len(m.files) :
                                           m.files[i].risk_level \in levels})
       IN  /\ m.high_risk_file_count = Rated({"high"})
           /\ m.high_risk_file_count + Rated({"critical", "medium", "low"})
                = m.file_count

\* C18 happens: a manifest with one entry rated critical and one rated high
\* counts one high-risk file.
C18_Witness ==
    /\ fn_out.f = "build_manifest"
    /\ \E i, j \in 1..Len(fn_out.val.files) :
          /\ fn_out.val.files[i].risk_level = "critical"
          /\ fn_out.val.files[j].risk_level = "high"
    /\ fn_out.val.high_risk_file_count = 1

\* C19: in the result of select_high_risk_files an entry with a non-empty
\* vulnerabilities field comes before every entry rated critical that has
\* none, whatever their sizes and their places in the manifest.
C19_FindingsBeforeCritical ==
    fn_out.f = "select_high_risk_files"
    => \A i, j \in 1..Len(fn_out.val) :
         (/\ fn_out.val[i].vulnerabilities # {}
          /\ fn_out.val[j].vulnerabilities = {}
          /\ fn_out.val[j].risk_level = "critical")
         => i < j

\* C19 happens: a small entry rated low with a finding, placed behind a
\* large entry rated critical without one, is first in the result.
C19_Witness ==
    /\ fn_out.f = "select_high_risk_files"
    /\ Len(fn_in.arg.files) = 2 /\ Len(fn_out.val) = 2
    /\ fn_in.arg.files[1].risk_level = "critical"
    /\ fn_in.arg.files[1].vulnerabilities = {}
    /\ fn_in.arg.files[2].risk_level = "low"
    /\ fn_in.arg.files[2].vulnerabilities # {}
    /\ fn_in.arg.files[2].size < fn_in.arg.files[1].size
    /\ fn_out.val = <<fn_in.arg.files[2], fn_in.arg.files[1]>>

\* C20: sanitizing a sanitized text changes nothing:
\* _sanitize_text(_sanitize_text(t)) = _sanitize_text(t) for every text t.
C20_SanitizeIdempotent ==
    fn_out.f = "sanitize_text" => SanitizeText(fn_out.val) = fn_out.val

\* C20 happens: a text in which a later pattern (exec\() sits inside what
\* would otherwise match an earlier one (rm\s+-rf) was sanitized, the later
\* pattern was replaced by the marker, and a second pass changes nothing.
C20_Witness ==
    /\ fn_out.f = "sanitize_text"
    /\ fn_in.arg = <<"rm", "ws", "exec(", "-rf">>
    /\ fn_out.val = <<"rm", "ws", "[REDACTED]", "-rf">>
    /\ SanitizeText(fn_out.val) = fn_out.val

\* C21: when the generation endpoint answers with text that does not parse or
\* validate, generate_gemini_attack_plan returns the fallback plan in that
\* step, without another invocation; the retry counter moves on error
\* responses alone.
C21_UnusableTextEndsTheLoop ==
    [][(gp_pc = "loop" /\ gp_calls' = gp_calls + 1 /\ gp_last' = "invalid")
         => /\ gp_pc' = "done"
            /\ gp_result'.plan_source \in {"fallback", "fallback_with_scan_results"}
            /\ gp_retry' = gp_retry]_vars

\* C24: the steps of every plan returned are numbered 1, 2, 3, ... in order,
\* also when entries of the model's steps array were dropped.
C24_StepsNumberedDensely ==
    gp_pc = "done" =>
        \A i \in 1..Len(gp_result.steps) : gp_result.steps[i].step_number = i

\* C25: every step of every plan returned names at most five affected files,
\* each of them a path of the manifest's files handed to the synthesizer.
C25_AffectedFilesInManifest ==
    gp_pc = "done" =>
        \A i \in 1..Len(gp_result.steps) :
            /\ Len(gp_result.steps[i].affected_files) <= 5
            /\ Range(gp_result.steps[i].affected_files) \subseteq ValidFiles(gp_profile)

\* The (file, vulnerability type) pairs of the scanned files, in file order
\* and within a file in the order SQL injection, command injection,
\* hardcoded secrets.
RECURSIVE C22_Pairs(_)
C22_Pairs(files) ==
    IF files = <<>> THEN <<>>
    ELSE LET f == Head(files)
             v == IF f.readable THEN GeminiScanFileContent(f.content) ELSE {}
         IN  (IF "sql_injection" \in v THEN <<(<<f.path, "SQL Injection">>)>> ELSE <<>>)
             \o (IF "command_injection" \in v
                 THEN <<(<<f.path, "Command Injection">>)>> ELSE <<>>)
             \o (IF "hardcoded_secrets" \in v
                 THEN <<(<<f.path, "Hardcoded Credentials">>)>> ELSE <<>>)
             \o C22_Pairs(Tail(files))

\* C22: the steps of the fallback plan are the first three (file, class)
\* pairs of all scanned files, and the generic two-step plan is returned
\* exactly when no scanned file carries a detected vulnerability class.
C22_FallbackStepsAreFirstPairs ==
    fn_out.f = "fallback_plan" =>
        LET steps == fn_out.val.steps
            detected == \E i \in 1..Len(fn_in.arg) :
                            /\ fn_in.arg[i].readable
                            /\ GeminiScanFileContent(fn_in.arg[i].content) # {}
        IN  /\ (steps = GenericSteps) <=> ~detected
            /\ steps # GenericSteps =>
                  [i \in 1..Len(steps) |->
                      <<steps[i].affected_files[1], steps[i].vulnerability_type>>]
                  = Take(C22_Pairs(fn_in.arg), 3)

\* C23: the overall_severity of a fallback plan is critical exactly when one
\* of the steps the plan returns is critical, and high otherwise.
C23_OverallFromReturnedSteps ==
    fn_out.f = "fallback_plan" =>
        LET steps == fn_out.val.steps
            critical == \E i \in 1..Len(steps) : steps[i].severity = "critical"
        IN  fn_out.val.overall_severity = IF critical THEN "critical" ELSE "high"

\* C23 happens: three files with a hardcoded secret each come before a file
\* with a command injection; the plan has three high steps, the critical
\* finding is outside it, and the overall severity is high.
C23_Witness ==
    /\ fn_out.f = "fallback_plan"
    /\ Len(fn_in.arg) = 4
    /\ GeminiScanFileContent(fn_in.arg[4].content) = {"command_injection"}
    /\ Len(fn_out.val.steps) = 3
    /\ \A i \in 1..3 : fn_out.val.steps[i].severity = "high"
    /\ fn_out.val.overall_severity = "high"

\* C26: among the entries with detected vulnerabilities that
\* select_high_risk_files returns, an entry with more vulnerability classes
\* comes before one with fewer, and of two with the same number the larger
\* file comes first.
C26_MoreClassesFirst ==
    fn_out.f = "select_high_risk_files" =>
        \A i, j \in 1..Len(fn_out.val) :
            (/\ i < j
             /\ fn_out.val[i].vulnerabilities # {}
             /\ fn_out.val[j].vulnerabilities # {})
            => \/ Cardinality(fn_out.val[i].vulnerabilities)
                    > Cardinality(fn_out.val[j].vulnerabilities)
               \/ /\ Cardinality(fn_out.val[i].vulnerabilities)
                       = Cardinality(fn_out.val[j].vulnerabilities)
                  /\ fn_out.val[i].size >= fn_out.val[j].size

\* C27: _assess_risk gives a file one level by strict precedence: critical
\* exactly when the file has a code extension, is under the size ceiling, can
\* be read and the scan found a class; else high exactly when a heuristic
\* matched; else medium with the one reason "Executable script" exactly when
\* the extension is a script type; else low with no reason.
C27_RiskByPrecedence ==
    fn_out.f = "assess_risk" =>
        LET f == fn_in.arg
            found == /\ f.suffix \in {"code", "shell"}
                     /\ f.size < 500 * 1024
                     /\ f.readable
                     /\ ScanFileContent(f.content) # {}
            script == f.suffix \in {"shell", "bat"}
            level == fn_out.val.risk_level
            reasons == fn_out.val.risk_reasons
        IN  /\ level \in {"critical", "high", "medium", "low"}
            /\ level = "critical" <=> found
            /\ level = "high" <=> (~found /\ f.named)
            /\ level = "medium" <=> (~found /\ ~f.named /\ script)
            /\ level = "low" <=> (~found /\ ~f.named /\ ~script)
            /\ level = "medium" => reasons = <<"Executable script">>
            /\ level = "low" => reasons = <<>>

\* C27 happens: a code file that a heuristic matches and in which the scan
\* found a class was rated critical, not high.
C27_Witness ==
    /\ fn_out.f = "assess_risk"
    /\ fn_in.arg.named
    /\ ScanFileContent(fn_in.arg.content) # {}
    /\ fn_in.arg.size < 500 * 1024
    /\ fn_out.val.risk_level = "critical"

C29_CacheHoldsNewestRun ==
    (\A c \in Clients : req[c].pc \in {"idle", "done", "rejected"})
    => \A repo \in Repos :
         (\E id \in RunIds : runlog[id].repo_id = repo)
         => /\ cache[repo].present
            /\ cache[repo].timestamp = cache[repo].simulation_data.run.timestamp
            /\ \A id \in RunIds :
                  runlog[id].repo_id = repo
                  => runlog[id].timestamp <= cache[repo].timestamp

\* C30: every insight row of the persistent store holds text the generation
\* endpoint produced for the run: when insight generation failed or the key
\* is missing no row is written, and a report answered with the fallback
\* message leaves the run without an insight row.
C30_OnlyGeneratedInsightsStored ==
    /\ \A i \in 1..Len(store.insights) :
          store.insights[i].insight # _FALLBACK_MESSAGE
    /\ (rp.status = 200 /\ rp.report.ai_insight = _FALLBACK_MESSAGE)
        => RowsOfRun(store.insights, rp.report.repo_id, rp.report.run_id) = <<>>

===========================================================================
